---- MODULE Spec2Model ----
(***************************************************************************)
(* dev.py of phoenix-ide: the development lifecycle commands (up, down,     *)
(* restart, status) of one worktree, run by several concurrent dev.py       *)
(* invocations, at the granularity of the system calls that touch the       *)
(* shared state: the lock file and its advisory flock, the two PID files    *)
(* and the spawned server processes.                                        *)
(*                                                                          *)
(* Abstractions of the operating system:                                    *)
(*  - a file descriptor is identified by the inode it refers to; an inode   *)
(*    lives while it is linked at the lock path or open in some process;    *)
(*  - flock(LOCK_EX | LOCK_NB) is granted iff no other open file            *)
(*    description holds a lock on the same inode;                            *)
(*  - os.kill(pid, 0) succeeds iff the process has not exited (an exited    *)
(*    child is taken as reaped, PIDs are not reused);                        *)
(*  - process exit closes every descriptor of the process.                  *)
(* The PID text written into the lock file is diagnostic only and is not    *)
(* modelled.                                                                 *)
(***************************************************************************)
EXTENDS Integers, Sequences, FiniteSets, TLC

\* ------------------------------------------------------------------ bounds
NumInv == 3        \* dev.py invocations that SpecSeq runs one after the other
MaxInodes == 4     \* inode numbers available for lock files
MaxConc == 2       \* processes that run concurrently in Spec and in SpecLock
MaxCalls == 2      \* acquire() calls per DatabaseLock handle in SpecLock
MaxOther == 1      \* digests tried for the second worktree in SpecIdent
MaxFiles == 2      \* task files in the tasks/ directory in SpecTasks
MaxRuns == 2       \* cmd_tasks_fix runs in SpecTasks

\* ------------------------------------------------------- program constants
BASE_PHOENIX_PORT == 8000
BASE_VITE_PORT == 8025
PORT_RANGE == 25
PROD_PORT == 8031
GRACE_POLLS == 10

Inv == 1 .. NumInv
Conc == {i \in Inv : i <= MaxConc}
Targets == {"Phoenix", "Vite"}
\* The calls of get_pid: <<caller, target>>.
Sites == {"start", "stop", "status"} \X Targets
Inodes == 1 .. MaxInodes

\* PID of the server that invocation i spawns for target t (PIDs are unique).
ProcPid(t, i) == IF t = "Phoenix" THEN i ELSE NumInv + i
PhoenixPids == {ProcPid("Phoenix", i) : i \in Inv}

VARIABLES
    loc,        \* [Inv -> the Python state of the invocation, a record:
                \*   cmd          command of main(), "none" before it is parsed
                \*   pc           position in the code
                \*   ctx          caller of the running get_pid: "start", "stop", "status"
                \*   tgt          name / pid_file argument of the running call
                \*   ra           caller of the running acquire / release
                \*   pid          local pid (get_pid, stop_process) or proc.pid (start_*)
                \*   wfd          inode of the PID file opened by write_text
                \*   polls        iterations done of stop_process's range(10) loop
                \*   stopped_any  cmd_down's stopped_any
                \*   phoenix_pid  cmd_status's phoenix_pid
                \*   sent         [Targets -> signals delivered by stop_process]
                \*   sp_ret       [Targets -> return value of stop_process, "none" before]
                \*   gp           [Sites -> what get_pid found when called there: "none"
                \*                (not called), "absent", "stale" (dead PID, file
                \*                deleted), "live"]
                \*   said         messages printed
                \*   code         exit status (once pc is "exit" or "done")
                \*   exc, exc_at  the uncaught exception and the position that raised it
                \*   db_lock      the module global _db_lock is not None
                \*   acq          last return value of acquire(): "none", "True", "False"
                \*   calls        acquire() calls made on the handle (SpecLock)
                \*   body         with-block: "none", "ran", "raised"]
    hfd,        \* [Inv -> DatabaseLock.fd as the inode of the open descriptor, 0 = None]
    hlocked,    \* [Inv -> the descriptor hfd holds the flock]
    leaked,     \* [Inv -> inodes of open, locked descriptors that self.fd no longer names]
    lockpath,   \* inode linked at get_lock_path(), 0 = no such file
    pidfile,    \* [Targets -> [ino, text]]: ino 0 = no such file, text = decimal digits
    alive,      \* PIDs of the running server processes
    zombies,    \* PIDs of server processes that ended and whose parent, a dev.py
                \* invocation that still runs, has not waited for them
    spawned,    \* PIDs ever spawned
    digest,     \* [worktree -> hashlib.md5(str(ROOT)).hexdigest()[:8] as hex digits]
    ident,      \* [worktree -> the identity derived from it] (SpecIdent)
    host,       \* [platform, systemd, limactl, unpushed, upstream]: sys.platform,
                \* PID 1 is systemd, limactl is installed, the branch has commits
                \* that are not pushed, the branch has an upstream branch
    pr,         \* the `./dev.py prod ...` invocation:
                \*   [cmd, pc, env, k, active, failed, said, code, exc]
                \*   env     what detect_prod_env returned: "unset", "native", "lima",
                \*           "daemon", "None"
                \*   k       index of the next step of the deploy
                \*   active  the service was active at the is-active check:
                \*           "unset", "yes", "no"
                \*   failed  the step that failed, or "none"
    log,        \* the external commands the invocation has issued, in order
    prod,       \* the production state:
                \*   vm            the Lima VM: "absent", "stopped", "running"
                \*   install       the binary at the install location: "none", "old",
                \*                 "partial", "new"
                \*   socket_unit, service_unit   the unit files: "none", "old", "new"
                \*   socket, service             the unit is active
                \*   daemon_old    the daemon of an earlier deploy runs
                \*   daemon_new    the daemon this deploy spawned: "none", "alive",
                \*                 "dead"
                \*   pidfile       ~/.phoenix-ide/prod.pid: "none", "old", "new"
                \*   frag          the override fragment <name>.conf: "none", "old",
                \*                 "new"
                \*   conflict      a fragment of another name sets the same variable
    prod0,      \* the production state before the invocation
    foreign,    \* PIDs of processes that belong to another user than the one who
                \* runs dev.py: os.kill on them raises PermissionError
    gw,         \* one call of get_llm_gateway:
                \*   env      os.environ.get("LLM_GATEWAY"): "None" when unset
                \*   config   /exe.dev/shelley.json: "absent", "invalid" (not
                \*            JSON), "nokey" (no llm_gateway in it) or the URL
                \*   up       the URLs that answer a request
                \*   pc, k    position in the code, index of the next candidate
                \*   probed   the URLs probed so far, in order
                \*   ret      the value returned, "unset" before the return
    tasks,      \* the tasks/ directory and the task commands run on it:
                \*   dir    the task files, each a record of its name (the
                \*          number and the dash-separated words after it) and
                \*          the lines <<key, value>> of its front matter
                \*   runs   what each cmd_tasks_fix so far returned and how
                \*          many files it patched and renamed
                \*   validated, errors   cmd_tasks_validate has run since the
                \*          last fix, and the errors <<file name, kind>> it found
    gen         \* unit generation, for each of two configurations:
                \*   config   the SystemdConfig
                \*   version  the version string
                \*   socket   the text generate_systemd_socket returned, a sequence
                \*            of lines <<directive, value>>; <<>> before the call
                \*   service  the text generate_systemd_service returned

lockvars == <<hfd, hlocked, leaked, lockpath>>
procvars == <<pidfile, alive, zombies, spawned>>
idvars == <<digest, ident>>
prodvars == <<host, pr, log, prod, prod0>>
vars == <<loc, lockvars, procvars, idvars, prodvars, gen, foreign, gw, tasks>>

\* ------------------------------------------------------------ text of a PID
RECURSIVE Str(_)
\* str(proc.pid): the decimal digits of n.
Str(n) == IF n < 10 THEN <<n>> ELSE Append(Str(n \div 10), n % 10)

RECURSIVE ParseInt(_)
\* int(text): the value of a non-empty digit string.
ParseInt(s) == IF Len(s) = 0 THEN 0
               ELSE 10 * ParseInt(SubSeq(s, 1, Len(s) - 1)) + s[Len(s)]

\* A write of s at offset 0 into a file holding old.
Overwrite(old, s) == IF Len(old) > Len(s) THEN s \o SubSeq(old, Len(s) + 1, Len(old))
                     ELSE s

NoFile == [ino |-> 0, text |-> <<>>]

Worktrees == {1, 2}
\* No identity derived yet.
NoIdentity == [hash |-> <<>>, offset |-> 0, phoenix_port |-> 0, vite_port |-> 0,
               db_path |-> <<>>, lock_path |-> <<>>]

\* --------------------------------------------------------- control transfer
ExitWith(L, c) == [L EXCEPT !.pc = "exit", !.code = c]
Raise(L, e) == [L EXCEPT !.pc = "exit", !.code = 1, !.exc = e, !.exc_at = L.pc]
Say(L, m) == [L EXCEPT !.said = @ \cup {m}]
CallGetPid(L, c, t) == [L EXCEPT !.ctx = c, !.tgt = t, !.pc = "get_pid_exists"]

\* start_phoenix has returned: cmd_up goes on to start_vite, cmd_restart ends.
RetStartPhoenix(L) ==
    IF L.cmd = "up" THEN CallGetPid(L, "start", "Vite")
    ELSE ExitWith(Say(L, "restarted"), 0)

\* start_vite has returned: cmd_up prints Ready and ends.
RetStartVite(L) == ExitWith(Say(L, "ready"), 0)

\* stop_process returns r ("True" / "False") to cmd_down or cmd_restart.
RetStop(L, r) ==
    LET L1 == [L EXCEPT !.sp_ret[L.tgt] = r] IN
    IF L.cmd = "restart" THEN CallGetPid(L1, "start", "Phoenix")
    ELSE IF L.tgt = "Vite"
         THEN CallGetPid([L1 EXCEPT !.stopped_any = (r = "True")], "stop", "Phoenix")
         ELSE [L1 EXCEPT !.stopped_any = @ \/ (r = "True"), !.pc = "down_exists"]

\* get_pid returns r (0 = None) to its caller.
RetGetPid(L, r) ==
    CASE L.ctx = "start" /\ L.tgt = "Phoenix" ->
            IF r # 0 THEN RetStartPhoenix(Say(L, "phoenix_already_running"))
            ELSE [L EXCEPT !.pc = "binary_exists"]
      [] L.ctx = "start" /\ L.tgt = "Vite" ->
            IF r # 0 THEN RetStartVite(Say(L, "vite_already_running"))
            ELSE [L EXCEPT !.pc = "ensure_ui_deps"]
      [] L.ctx = "stop" ->
            IF r = 0 THEN RetStop(L, "False")
            ELSE [L EXCEPT !.pid = r, !.polls = 0, !.pc = "stop_term"]
      [] L.ctx = "status" /\ L.tgt = "Phoenix" ->
            CallGetPid([L EXCEPT !.phoenix_pid = r], "status", "Vite")
      [] OTHER ->
            ExitWith(Say(Say(L, IF L.phoenix_pid # 0 THEN "phoenix_running"
                                                       ELSE "phoenix_stopped"),
                         IF r # 0 THEN "vite_running" ELSE "vite_stopped"), 0)

\* ------------------------------------------------------------------- Init
InitLoc ==
    [cmd |-> "none", pc |-> "main", ctx |-> "none", tgt |-> "none", ra |-> "none",
     pid |-> 0, wfd |-> 0, polls |-> 0, stopped_any |-> FALSE, phoenix_pid |-> 0,
     sent |-> [t \in Targets |-> {}], sp_ret |-> [t \in Targets |-> "none"],
     gp |-> [s \in Sites |-> "none"], said |-> {}, code |-> 0,
     exc |-> "none", exc_at |-> "none", db_lock |-> FALSE, acq |-> "none",
     calls |-> 0, body |-> "none"]

\* A fresh machine: no lock file, no PID file, nothing running.
InitMachine ==
    /\ hfd = [i \in Inv |-> 0]
    /\ hlocked = [i \in Inv |-> FALSE]
    /\ leaked = [i \in Inv |-> {}]
    /\ lockpath = 0
    /\ pidfile = [t \in Targets |-> NoFile]
    /\ alive = {}
    /\ zombies = {}
    /\ spawned = {}
    /\ foreign = {}
    /\ gw = [env |-> "None", config |-> "absent", up |-> {}, pc |-> "idle", k |-> 1,
            probed |-> <<>>, ret |-> "unset"]
    /\ tasks = [dir |-> {}, runs |-> <<>>, validated |-> FALSE, errors |-> {}]

\* No `./dev.py prod` invocation; a Linux host with systemd and nothing deployed.
InitPr ==
    [cmd |-> "none", pc |-> "idle", env |-> "unset", k |-> 1, active |-> "unset",
     failed |-> "none", said |-> {}, code |-> 0, exc |-> "none"]
NoProd ==
    [vm |-> "absent", install |-> "none", socket_unit |-> "none",
     service_unit |-> "none", socket |-> FALSE, service |-> FALSE,
     daemon_old |-> FALSE, daemon_new |-> "none", pidfile |-> "none", frag |-> "none",
     conflict |-> FALSE]
NoGen == [s \in {} |-> <<>>]
InitNoProd ==
    /\ host = [platform |-> "linux", systemd |-> TRUE, limactl |-> FALSE,
               unpushed |-> FALSE, upstream |-> TRUE]
    /\ pr = InitPr
    /\ log = <<>>
    /\ prod = NoProd
    /\ prod0 = NoProd
    /\ gen = NoGen

Init ==
    /\ loc = [i \in Inv |-> InitLoc]
    /\ InitMachine
    /\ digest = [w \in Worktrees |-> <<>>]
    /\ ident = [w \in Worktrees |-> NoIdentity]
    /\ InitNoProd

\* ------------------------------------------------- is_process_running, get_pid
\* os.kill(pid, sig) raises no OSError: the process table holds the PID, be it a
\* running process or one that ended and has not been waited for
\* (else ProcessLookupError), and the caller may signal it (else PermissionError).
Signalled(p) == p \in (alive \cup zombies) \ foreign

\* is_process_running: try: os.kill(pid, 0); return True; except OSError: return
\* False.
is_process_running(p) == Signalled(p)

\* get_pid: if not pid_file.exists(): return None.
GetPidExists(i) ==
    /\ loc[i].pc = "get_pid_exists"
    /\ LET L == loc[i] IN
       loc' = [loc EXCEPT ![i] =
                 IF pidfile[L.tgt].ino # 0 THEN [L EXCEPT !.pc = "get_pid_read"]
                 ELSE RetGetPid([L EXCEPT !.gp[<<L.ctx, L.tgt>>] = "absent"], 0)]
    /\ UNCHANGED <<lockvars, procvars, idvars, prodvars, gen, foreign, gw, tasks>>

\* get_pid: pid = int(pid_file.read_text().strip()).
GetPidRead(i) ==
    /\ loc[i].pc = "get_pid_read"
    /\ LET L == loc[i]
           f == pidfile[L.tgt] IN
       loc' = [loc EXCEPT ![i] =
                 IF f.ino = 0 THEN Raise(L, "FileNotFoundError")
                 ELSE IF Len(f.text) = 0 THEN Raise(L, "ValueError")
                 ELSE [L EXCEPT !.pid = ParseInt(f.text), !.pc = "get_pid_probe"]]
    /\ UNCHANGED <<lockvars, procvars, idvars, prodvars, gen, foreign, gw, tasks>>

\* A get_pid that returns the PID it read whether or not the process runs.
GetPidResultKeepsDead(p, running) == p

\* The value get_pid returns for the PID it read, given the liveness probe.
GetPidResult(p, running) == IF running THEN p ELSE 0

\* get_pid: if is_process_running(pid): return pid.
GetPidProbe(i) ==
    /\ loc[i].pc = "get_pid_probe"
    /\ LET L == loc[i] IN
       loc' = [loc EXCEPT ![i] =
                 IF is_process_running(L.pid)
                 THEN RetGetPid([L EXCEPT !.gp[<<L.ctx, L.tgt>>] = "live"],
                                GetPidResult(L.pid, TRUE))
                 ELSE [L EXCEPT !.pc = "get_pid_unlink"]]
    /\ UNCHANGED <<lockvars, procvars, idvars, prodvars, gen, foreign, gw, tasks>>

\* The PID file after pid_file.unlink() of an existing file.
Unlinked(f) == NoFile

\* get_pid: pid_file.unlink(); return None.
GetPidUnlink(i) ==
    /\ loc[i].pc = "get_pid_unlink"
    /\ LET L == loc[i]
           t == L.tgt IN
       IF pidfile[t].ino = 0
       THEN /\ loc' = [loc EXCEPT ![i] = Raise(L, "FileNotFoundError")]
            /\ UNCHANGED pidfile
       ELSE /\ pidfile' = [pidfile EXCEPT ![t] = Unlinked(pidfile[t])]
            /\ loc' = [loc EXCEPT ![i] =
                         RetGetPid([L EXCEPT !.gp[<<L.ctx, t>>] = "stale"],
                                   GetPidResult(L.pid, FALSE))]
    /\ UNCHANGED <<lockvars, alive, zombies, spawned, idvars, prodvars, gen, foreign, gw, tasks>>

\* ------------------------------------------------------------ stop_process
\* The invocation whose Popen spawned server p, and whether its process still runs.
ParentOf(p) == IF p <= NumInv THEN p ELSE p - NumInv
ParentRuns(p) == loc[ParentOf(p)].pc # "done"

\* What becomes of a server that ends: it is reaped at once (its parent is gone, so
\* init waits for it, or the parent runs with SIGCHLD ignored), or it stays in the
\* process table because the parent holds the Popen object and never waits for it.
Reaping(p) == IF ParentRuns(p) THEN BOOLEAN ELSE {TRUE}
Ended(p, reaped) ==
    /\ alive' = alive \ {p}
    /\ zombies' = IF reaped THEN zombies ELSE zombies \cup {p}

\* stop_process: os.kill(pid, signal.SIGTERM); an OSError goes to the except clause.
StopTerm(i) ==
    /\ loc[i].pc = "stop_term"
    /\ LET L == loc[i] IN
       loc' = [loc EXCEPT ![i] =
                 IF Signalled(L.pid)
                 THEN [L EXCEPT !.sent[L.tgt] = @ \cup {"SIGTERM"}, !.pc = "stop_poll"]
                 ELSE [Say(L, "could_not_stop") EXCEPT !.pc = "stop_finally"]]
    /\ UNCHANGED <<lockvars, procvars, idvars, prodvars, gen, foreign, gw, tasks>>

\* A grace loop that gives up one poll early.
StopPollShort(i) ==
    /\ loc[i].pc = "stop_poll"
    /\ LET L == loc[i] IN
       loc' = [loc EXCEPT ![i] =
                 IF ~is_process_running(L.pid)
                 THEN [Say(L, "stopped") EXCEPT !.pc = "stop_finally"]
                 ELSE [L EXCEPT !.polls = @ + 1,
                                !.pc = IF L.polls + 2 >= GRACE_POLLS THEN "stop_kill"
                                       ELSE "stop_poll"]]
    /\ UNCHANGED <<lockvars, procvars, idvars, prodvars, gen, foreign, gw, tasks>>

\* stop_process: one iteration of  for _ in range(10): if not running: break; sleep.
\* The loop running out leads to the else clause (SIGKILL).
StopPoll(i) ==
    /\ loc[i].pc = "stop_poll"
    /\ LET L == loc[i] IN
       loc' = [loc EXCEPT ![i] =
                 IF ~is_process_running(L.pid)
                 THEN [Say(L, "stopped") EXCEPT !.pc = "stop_finally"]
                 ELSE [L EXCEPT !.polls = @ + 1,
                                !.pc = IF L.polls + 1 = GRACE_POLLS THEN "stop_kill"
                                       ELSE "stop_poll"]]
    /\ UNCHANGED <<lockvars, procvars, idvars, prodvars, gen, foreign, gw, tasks>>

\* stop_process: else: os.kill(pid, signal.SIGKILL).
StopKill(i) ==
    /\ loc[i].pc = "stop_kill"
    /\ LET L == loc[i] IN
       IF Signalled(L.pid)
       THEN /\ \E reaped \in Reaping(L.pid) :
                 IF L.pid \in alive THEN Ended(L.pid, reaped)
                 ELSE UNCHANGED <<alive, zombies>>
            /\ loc' = [loc EXCEPT ![i] =
                         [Say(L, "stopped") EXCEPT !.sent[L.tgt] = @ \cup {"SIGKILL"},
                                                   !.pc = "stop_finally"]]
       ELSE /\ UNCHANGED <<alive, zombies>>
            /\ loc' = [loc EXCEPT ![i] =
                         [Say(L, "could_not_stop") EXCEPT !.pc = "stop_finally"]]
    /\ UNCHANGED <<lockvars, pidfile, spawned, idvars, prodvars, gen, foreign, gw, tasks>>

\* stop_process, finally: the lock is released when stopping Phoenix with _db_lock
\* set; otherwise the function returns True.
StopRelease(L) ==
    IF L.tgt = "Phoenix" /\ L.db_lock THEN [L EXCEPT !.ra = "stop", !.pc = "release"]
    ELSE RetStop(L, "True")

\* A stop_process that cleans up only when no signal call raised.
StopFinallyOnSuccess(i) ==
    /\ loc[i].pc = "stop_finally"
    /\ LET L == loc[i] IN
       loc' = [loc EXCEPT ![i] =
                 IF pidfile[L.tgt].ino # 0 /\ "could_not_stop" \notin L.said
                 THEN [L EXCEPT !.pc = "stop_unlink"]
                 ELSE StopRelease(L)]
    /\ UNCHANGED <<lockvars, procvars, idvars, prodvars, gen, foreign, gw, tasks>>

\* stop_process, finally: if pid_file.exists().
StopFinally(i) ==
    /\ loc[i].pc = "stop_finally"
    /\ LET L == loc[i] IN
       loc' = [loc EXCEPT ![i] =
                 IF pidfile[L.tgt].ino # 0 THEN [L EXCEPT !.pc = "stop_unlink"]
                 ELSE StopRelease(L)]
    /\ UNCHANGED <<lockvars, procvars, idvars, prodvars, gen, foreign, gw, tasks>>

\* stop_process, finally: pid_file.unlink().
StopUnlink(i) ==
    /\ loc[i].pc = "stop_unlink"
    /\ LET L == loc[i]
           t == L.tgt IN
       IF pidfile[t].ino = 0
       THEN /\ loc' = [loc EXCEPT ![i] = Raise(L, "FileNotFoundError")]
            /\ UNCHANGED pidfile
       ELSE /\ pidfile' = [pidfile EXCEPT ![t] = Unlinked(pidfile[t])]
            /\ loc' = [loc EXCEPT ![i] = StopRelease(L)]
    /\ UNCHANGED <<lockvars, alive, zombies, spawned, idvars, prodvars, gen, foreign, gw, tasks>>

\* ------------------------------------------------------------ DatabaseLock
InUse(n) == lockpath = n \/ \E j \in Inv : hfd[j] = n \/ n \in leaked[j]
FreeInodes == {n \in Inodes : ~InUse(n)}
\* The inode os.open(O_CREAT) creates when the path does not exist.
FreshInode == CHOOSE n \in FreeInodes : \A m \in FreeInodes : n <= m

\* acquire() returns ok to its caller.
RetAcquire(L, ok) ==
    LET L1 == [L EXCEPT !.acq = IF ok THEN "True" ELSE "False"] IN
    CASE L.ra = "start" ->
            IF ok THEN [L1 EXCEPT !.pc = "popen"]
            ELSE ExitWith(Say(L1, "locked"), 1)
      [] L.ra = "enter" ->
            IF ok THEN [L1 EXCEPT !.pc = "with_body"]
            ELSE Raise(L1, "RuntimeError")
      [] OTHER -> [L1 EXCEPT !.pc = "api"]

\* release() returns to its caller.
RetRelease(L) ==
    CASE L.ra = "stop" -> RetStop([L EXCEPT !.db_lock = FALSE], "True")
      [] L.ra = "start_fail" -> ExitWith([L EXCEPT !.db_lock = FALSE], 1)
      [] L.ra = "exit" ->
            IF L.body = "raised" THEN Raise(L, "BodyError")
            ELSE [L EXCEPT !.pc = "api"]
      [] OTHER -> [L EXCEPT !.pc = "api"]

\* acquire: self.fd = os.open(str(self.lock_path), os.O_RDWR | os.O_CREAT).
\* A descriptor self.fd named before stays open, no longer named by the handle.
AcquireOpen(i) ==
    /\ loc[i].pc = "acquire_open"
    /\ lockpath # 0 \/ FreeInodes # {}
    /\ LET n == IF lockpath # 0 THEN lockpath ELSE FreshInode IN
       /\ lockpath' = n
       /\ hfd' = [hfd EXCEPT ![i] = n]
       /\ hlocked' = [hlocked EXCEPT ![i] = FALSE]
       /\ leaked' = [leaked EXCEPT ![i] = IF hfd[i] # 0 THEN @ \cup {hfd[i]} ELSE @]
    /\ loc' = [loc EXCEPT ![i].pc = "acquire_flock"]
    /\ UNCHANGED <<procvars, idvars, prodvars, gen, foreign, gw, tasks>>

\* fcntl.flock(self.fd, LOCK_EX | LOCK_NB) raises no OSError: no other open file
\* description, of this or of another process, holds a lock on the inode.
FlockGranted(i) ==
    \A j \in Inv : /\ hfd[i] \notin leaked[j]
                   /\ j # i => ~(hlocked[j] /\ hfd[j] = hfd[i])

\* acquire: the flock attempt; on OSError os.close(self.fd); self.fd = None.
AcquireFlock(i) ==
    /\ loc[i].pc = "acquire_flock"
    /\ IF FlockGranted(i)
       THEN /\ hlocked' = [hlocked EXCEPT ![i] = TRUE]
            /\ loc' = [loc EXCEPT ![i] = RetAcquire(loc[i], TRUE)]
            /\ UNCHANGED hfd
       ELSE /\ hfd' = [hfd EXCEPT ![i] = 0]
            /\ loc' = [loc EXCEPT ![i] = RetAcquire(loc[i], FALSE)]
            /\ UNCHANGED hlocked
    /\ UNCHANGED <<leaked, lockpath, procvars, idvars, prodvars, gen, foreign, gw, tasks>>

\* A release that forgets the descriptor without unlocking or closing it.
ReleaseKeepsDescriptor(i) ==
    /\ loc[i].pc = "release"
    /\ IF hfd[i] # 0
       THEN /\ hfd' = [hfd EXCEPT ![i] = 0]
            /\ hlocked' = [hlocked EXCEPT ![i] = FALSE]
            /\ leaked' = [leaked EXCEPT ![i] = @ \cup {hfd[i]}]
            /\ loc' = [loc EXCEPT ![i].pc = "release_unlink"]
       ELSE /\ loc' = [loc EXCEPT ![i] = RetRelease(loc[i])]
            /\ UNCHANGED <<hfd, hlocked, leaked>>
    /\ UNCHANGED <<lockpath, procvars, idvars, prodvars, gen, foreign, gw, tasks>>

\* release: if self.fd is not None: flock(LOCK_UN); os.close(self.fd); self.fd = None.
Release(i) ==
    /\ loc[i].pc = "release"
    /\ IF hfd[i] # 0
       THEN /\ hfd' = [hfd EXCEPT ![i] = 0]
            /\ hlocked' = [hlocked EXCEPT ![i] = FALSE]
            /\ loc' = [loc EXCEPT ![i].pc = "release_unlink"]
            /\ UNCHANGED leaked
       ELSE /\ loc' = [loc EXCEPT ![i] = RetRelease(loc[i])]
            /\ UNCHANGED <<hfd, hlocked, leaked>>
    /\ UNCHANGED <<lockpath, procvars, idvars, prodvars, gen, foreign, gw, tasks>>

\* release: try: self.lock_path.unlink() except OSError: pass.
ReleaseUnlink(i) ==
    /\ loc[i].pc = "release_unlink"
    /\ lockpath' = 0
    /\ loc' = [loc EXCEPT ![i] = RetRelease(loc[i])]
    /\ UNCHANGED <<hfd, hlocked, leaked, procvars, idvars, prodvars, gen, foreign, gw, tasks>>

\* ------------------------------------------------ start_phoenix, start_vite
\* start_phoenix: the binary is missing -> exit 1; else _db_lock = DatabaseLock()
\* and acquire() is called.
BinaryExists(i) ==
    /\ loc[i].pc = "binary_exists"
    /\ \E found \in BOOLEAN :
         loc' = [loc EXCEPT ![i] =
                   IF found
                   THEN [loc[i] EXCEPT !.db_lock = TRUE, !.ra = "start",
                                       !.pc = "acquire_open"]
                   ELSE ExitWith(Say(loc[i], "binary_not_found"), 1)]
    /\ UNCHANGED <<lockvars, procvars, idvars, prodvars, gen, foreign, gw, tasks>>

\* start_vite: ensure_ui_deps(); npm install may fail (check=True).
EnsureUiDeps(i) ==
    /\ loc[i].pc = "ensure_ui_deps"
    /\ \E ok \in BOOLEAN :
         loc' = [loc EXCEPT ![i] =
                   IF ok THEN [loc[i] EXCEPT !.pc = "popen"]
                   ELSE Raise(loc[i], "CalledProcessError")]
    /\ UNCHANGED <<lockvars, procvars, idvars, prodvars, gen, foreign, gw, tasks>>

\* subprocess.Popen(..., start_new_session=True): the server process runs. Popen
\* first polls the children whose Popen objects were dropped while they ran.
Popen(i) ==
    /\ loc[i].pc = "popen"
    /\ LET p == ProcPid(loc[i].tgt, i) IN
       /\ alive' = alive \cup {p}
       /\ spawned' = spawned \cup {p}
       /\ zombies' = zombies \ {ProcPid("Phoenix", i)}
       /\ loc' = [loc EXCEPT ![i].pid = p, ![i].pc = "write_open"]
    /\ UNCHANGED <<lockvars, pidfile, idvars, prodvars, gen, foreign, gw, tasks>>

\* write_text: the file is opened for writing, created or truncated.
WriteOpen(i) ==
    /\ loc[i].pc = "write_open"
    /\ LET t == loc[i].tgt
           n == IF pidfile[t].ino # 0 THEN pidfile[t].ino ELSE loc[i].pid IN
       /\ pidfile' = [pidfile EXCEPT ![t] = [ino |-> n, text |-> <<>>]]
       /\ loc' = [loc EXCEPT ![i].wfd = n, ![i].pc = "write_text"]
    /\ UNCHANGED <<lockvars, alive, zombies, spawned, idvars, prodvars, gen, foreign, gw, tasks>>

\* write_text: str(proc.pid) is written and the file closed. The text reaches the
\* path only if the path still names the file that was opened.
WriteText(i) ==
    /\ loc[i].pc = "write_text"
    /\ LET t == loc[i].tgt
           f == pidfile[t] IN
       pidfile' = [pidfile EXCEPT ![t] =
                     IF f.ino = loc[i].wfd
                     THEN [f EXCEPT !.text = Overwrite(f.text, Str(loc[i].pid))]
                     ELSE f]
    /\ loc' = [loc EXCEPT ![i].wfd = 0, ![i].pc = "verify"]
    /\ UNCHANGED <<lockvars, alive, zombies, spawned, idvars, prodvars, gen, foreign, gw, tasks>>

\* After the settle delay: if not is_process_running(proc.pid) the start failed.
\* When the function returns, the Popen object is dropped, and its destructor
\* polls the child: a child that has ended is waited for.
Verify(i) ==
    /\ loc[i].pc = "verify"
    /\ LET L == loc[i] IN
       loc' = [loc EXCEPT ![i] =
                 IF is_process_running(L.pid)
                 THEN IF L.tgt = "Phoenix" THEN RetStartPhoenix(Say(L, "started_phoenix"))
                      ELSE RetStartVite(Say(L, "started_vite"))
                 ELSE [Say(L, "failed_to_start") EXCEPT !.pc = "start_unlink"]]
    /\ zombies' = IF is_process_running(loc[i].pid) THEN zombies \ {loc[i].pid}
                  ELSE zombies
    /\ UNCHANGED <<lockvars, pidfile, alive, spawned, idvars, prodvars, gen, foreign, gw, tasks>>

\* The failed start: PID_FILE.unlink(); Phoenix: _db_lock.release(); sys.exit(1).
StartUnlink(i) ==
    /\ loc[i].pc = "start_unlink"
    /\ LET L == loc[i]
           t == L.tgt IN
       IF pidfile[t].ino = 0
       THEN /\ loc' = [loc EXCEPT ![i] = Raise(L, "FileNotFoundError")]
            /\ UNCHANGED pidfile
       ELSE /\ pidfile' = [pidfile EXCEPT ![t] = Unlinked(pidfile[t])]
            /\ loc' = [loc EXCEPT ![i] =
                         IF t = "Phoenix"
                         THEN [L EXCEPT !.ra = "start_fail", !.pc = "release"]
                         ELSE ExitWith(L, 1)]
    /\ UNCHANGED <<lockvars, alive, zombies, spawned, idvars, prodvars, gen, foreign, gw, tasks>>

\* ---------------------------------------------------------------- commands
\* cmd_up: build_rust (check=True), then start_phoenix.
CmdUp(i) ==
    /\ loc[i].pc = "main"
    /\ \E built \in BOOLEAN :
         loc' = [loc EXCEPT ![i] =
                   IF built THEN CallGetPid([loc[i] EXCEPT !.cmd = "up"], "start", "Phoenix")
                   ELSE Raise([loc[i] EXCEPT !.cmd = "up"], "CalledProcessError")]
    /\ UNCHANGED <<lockvars, procvars, idvars, prodvars, gen, foreign, gw, tasks>>

\* A cmd_restart that has stopped Phoenix and removed its PID file by the time
\* the build fails.
CmdRestartStopFirst(i) ==
    /\ loc[i].pc = "main"
    /\ \E built \in BOOLEAN :
         /\ loc' = [loc EXCEPT ![i] =
                      IF built
                      THEN CallGetPid([loc[i] EXCEPT !.cmd = "restart"], "stop", "Phoenix")
                      ELSE Raise([loc[i] EXCEPT !.cmd = "restart"], "CalledProcessError")]
         /\ pidfile' = IF built THEN pidfile
                       ELSE [pidfile EXCEPT !["Phoenix"] = Unlinked(@)]
         /\ alive' = IF built THEN alive ELSE alive \ PhoenixPids
    /\ UNCHANGED <<lockvars, zombies, spawned, idvars, prodvars, gen, foreign, gw, tasks>>

\* cmd_restart: build_rust (check=True), then stop_process(PHOENIX_PID_FILE).
CmdRestart(i) ==
    /\ loc[i].pc = "main"
    /\ \E built \in BOOLEAN :
         loc' = [loc EXCEPT ![i] =
                   IF built
                   THEN CallGetPid([loc[i] EXCEPT !.cmd = "restart"], "stop", "Phoenix")
                   ELSE Raise([loc[i] EXCEPT !.cmd = "restart"], "CalledProcessError")]
    /\ UNCHANGED <<lockvars, procvars, idvars, prodvars, gen, foreign, gw, tasks>>

\* cmd_down: stop_process(VITE_PID_FILE) first.
CmdDown(i) ==
    /\ loc[i].pc = "main"
    /\ loc' = [loc EXCEPT ![i] = CallGetPid([loc[i] EXCEPT !.cmd = "down"], "stop", "Vite")]
    /\ UNCHANGED <<lockvars, procvars, idvars, prodvars, gen, foreign, gw, tasks>>

\* cmd_status: get_pid(PHOENIX_PID_FILE) first.
CmdStatus(i) ==
    /\ loc[i].pc = "main"
    /\ loc' = [loc EXCEPT ![i] =
                 CallGetPid([loc[i] EXCEPT !.cmd = "status"], "status", "Phoenix")]
    /\ UNCHANGED <<lockvars, procvars, idvars, prodvars, gen, foreign, gw, tasks>>

\* cmd_down ends: "Nothing running" unless a stop_process returned True.
RetDown(L) ==
    ExitWith(IF L.stopped_any THEN L ELSE Say(L, "nothing_running"), 0)

\* A cmd_down that leaves the lock file where it is.
DownExistsKeeps(i) ==
    /\ loc[i].pc = "down_exists"
    /\ loc' = [loc EXCEPT ![i] = RetDown(loc[i])]
    /\ UNCHANGED <<lockvars, procvars, idvars, prodvars, gen, foreign, gw, tasks>>

\* cmd_down: if lock_path.exists().
DownExists(i) ==
    /\ loc[i].pc = "down_exists"
    /\ loc' = [loc EXCEPT ![i] =
                 IF lockpath # 0 THEN [loc[i] EXCEPT !.pc = "down_unlink"]
                 ELSE RetDown(loc[i])]
    /\ UNCHANGED <<lockvars, procvars, idvars, prodvars, gen, foreign, gw, tasks>>

\* cmd_down: try: lock_path.unlink() except OSError: pass.
DownUnlink(i) ==
    /\ loc[i].pc = "down_unlink"
    /\ lockpath' = 0
    /\ loc' = [loc EXCEPT ![i] = RetDown(loc[i])]
    /\ UNCHANGED <<hfd, hlocked, leaked, procvars, idvars, prodvars, gen, foreign, gw, tasks>>

\* The invocation's process ends: the kernel closes its descriptors, which drops
\* the locks they hold.
Terminate(i) ==
    /\ loc[i].pc = "exit"
    /\ hfd' = [hfd EXCEPT ![i] = 0]
    /\ hlocked' = [hlocked EXCEPT ![i] = FALSE]
    /\ leaked' = [leaked EXCEPT ![i] = {}]
    /\ loc' = [loc EXCEPT ![i].pc = "done", ![i].pid = 0, ![i].wfd = 0, ![i].polls = 0]
    /\ zombies' = zombies \ {ProcPid(t, i) : t \in Targets}
    /\ UNCHANGED <<lockpath, pidfile, alive, spawned, idvars, prodvars, gen, foreign, gw, tasks>>

\* A server process ends (on its own, or in answer to a SIGTERM).
ServerExit(p) ==
    /\ p \in alive
    /\ \E reaped \in Reaping(p) : Ended(p, reaped)
    /\ UNCHANGED <<loc, lockvars, pidfile, spawned, idvars, prodvars, gen, foreign, gw, tasks>>

\* main() dispatches on the command line.
Launch(i) == CmdUp(i) \/ CmdDown(i) \/ CmdRestart(i) \/ CmdStatus(i)

Step(i) ==
    \/ GetPidExists(i) \/ GetPidRead(i) \/ GetPidProbe(i) \/ GetPidUnlink(i)
    \/ StopTerm(i) \/ StopPoll(i) \/ StopKill(i) \/ StopFinally(i) \/ StopUnlink(i)
    \/ BinaryExists(i) \/ AcquireOpen(i) \/ AcquireFlock(i)
    \/ Popen(i) \/ WriteOpen(i) \/ WriteText(i) \/ Verify(i) \/ StartUnlink(i)
    \/ Release(i) \/ ReleaseUnlink(i)
    \/ EnsureUiDeps(i) \/ DownExists(i) \/ DownUnlink(i)
    \/ Terminate(i)

\* Invocations are numbered in the order they start.
Started == {i \in Inv : loc[i].pc # "main"}
InOrder(i) == \A j \in Inv : j < i => j \in Started
\* No other invocation is running.
Alone(i) == \A j \in Inv \ {i} : loc[j].pc \in {"main", "done"}

\* Spec: up to MaxConc invocations, started at any time and interleaved freely.
Next ==
    \/ \E i \in Conc : Launch(i)
    \/ \E i \in Inv : Step(i)
    \/ \E p \in alive : ServerExit(p)

Spec == Init /\ [][Next]_vars

\* SpecSeq: up to NumInv invocations, each started when no other is running.
NextSeq ==
    \/ \E i \in Inv : InOrder(i) /\ Alone(i) /\ Launch(i)
    \/ \E i \in Inv : Step(i)
    \/ \E p \in alive : ServerExit(p)

SpecSeq == Init /\ [][NextSeq]_vars

\* From now on dev.py is run by another, unprivileged user than the one who
\* started the servers that are running (they were started with sudo).
OtherUser ==
    /\ \A i \in Inv : loc[i].pc \in {"main", "done"}
    /\ foreign = {} /\ alive # {}
    /\ foreign' = alive
    /\ UNCHANGED <<loc, lockvars, procvars, idvars, prodvars, gen, gw, tasks>>

\* SpecPerm: up to MaxConc invocations, each started when no other is running,
\* the later ones possibly by another user.
NextPerm ==
    \/ \E i \in Conc : InOrder(i) /\ Alone(i) /\ Launch(i)
    \/ \E i \in Conc : Step(i)
    \/ \E p \in alive : ServerExit(p)
    \/ OtherUser

SpecPerm == Init /\ [][NextPerm]_vars

\* ------------------------------------------- DatabaseLock as a class (SpecLock)
\* Each i \in Conc is a process owning one DatabaseLock handle and calling
\* acquire(), release() and the with-statement on it in any order.
\* lock = DatabaseLock()
ApiInit(i) ==
    /\ loc[i].pc = "main"
    /\ loc' = [loc EXCEPT ![i] = [loc[i] EXCEPT !.cmd = "api", !.pc = "api"]]
    /\ UNCHANGED <<lockvars, procvars, idvars, prodvars, gen, foreign, gw, tasks>>

\* lock.acquire()
ApiAcquire(i) ==
    /\ loc[i].pc = "api"
    /\ loc[i].calls < MaxCalls
    /\ loc' = [loc EXCEPT ![i] = [loc[i] EXCEPT !.calls = @ + 1, !.body = "none",
                                                !.ra = "api", !.pc = "acquire_open"]]
    /\ UNCHANGED <<lockvars, procvars, idvars, prodvars, gen, foreign, gw, tasks>>

\* lock.release()
ApiRelease(i) ==
    /\ loc[i].pc = "api"
    /\ loc' = [loc EXCEPT ![i] = [loc[i] EXCEPT !.body = "none", !.ra = "api",
                                                !.pc = "release"]]
    /\ UNCHANGED <<lockvars, procvars, idvars, prodvars, gen, foreign, gw, tasks>>

\* with lock:  -- __enter__ calls acquire() and raises RuntimeError on False.
Enter(i) ==
    /\ loc[i].pc = "api"
    /\ loc[i].calls < MaxCalls
    /\ loc' = [loc EXCEPT ![i] = [loc[i] EXCEPT !.calls = @ + 1, !.body = "none",
                                                !.ra = "enter", !.pc = "acquire_open"]]
    /\ UNCHANGED <<lockvars, procvars, idvars, prodvars, gen, foreign, gw, tasks>>

\* An __exit__ that releases only when the body raised nothing.
ExitOnSuccessOnly(L) ==
    IF L.body = "raised" THEN Raise(L, "BodyError")
    ELSE [L EXCEPT !.ra = "exit", !.pc = "release"]

\* __exit__(*args): self.release(), whatever the arguments; returns None.
__exit__(L) == [L EXCEPT !.ra = "exit", !.pc = "release"]

\* The body of the with-statement runs to its end or raises; either way the
\* interpreter calls __exit__.
WithBody(i) ==
    /\ loc[i].pc = "with_body"
    /\ \E b \in {"ran", "raised"} :
         loc' = [loc EXCEPT ![i] = __exit__([loc[i] EXCEPT !.body = b])]
    /\ UNCHANGED <<lockvars, procvars, idvars, prodvars, gen, foreign, gw, tasks>>

\* The process ends normally.
ApiExit(i) ==
    /\ loc[i].pc = "api"
    /\ loc' = [loc EXCEPT ![i] = ExitWith(loc[i], 0)]
    /\ UNCHANGED <<lockvars, procvars, idvars, prodvars, gen, foreign, gw, tasks>>

NextLock ==
    \E i \in Conc :
        \/ ApiInit(i)
        \/ ApiAcquire(i) \/ ApiRelease(i) \/ Enter(i) \/ WithBody(i) \/ ApiExit(i)
        \/ AcquireOpen(i) \/ AcquireFlock(i) \/ Release(i) \/ ReleaseUnlink(i)
        \/ Terminate(i)

SpecLock == Init /\ [][NextLock]_vars

\* --------------------------------------------- worktree identity (SpecIdent)
\* hashlib.md5 itself is not computed: the digest of a path is an input, and every
\* value of its first four hex digits is tried for the first worktree.
HexDigits == 0 .. 15

RECURSIVE HexInt(_)
\* int(h, 16) of a string of hex digits.
HexInt(h) == IF Len(h) = 0 THEN 0
             ELSE 16 * HexInt(SubSeq(h, 1, Len(h) - 1)) + h[Len(h)]

\* get_worktree_hash: hexdigest()[:8]
get_worktree_hash(h) == SubSeq(h, 1, 8)

\* A port offset reduced modulo one more than the range.
get_port_offset_wide(h) == HexInt(SubSeq(h, 1, 4)) % (PORT_RANGE + 1)

\* get_port_offset: int(h[:4], 16) % PORT_RANGE
get_port_offset(h) == HexInt(SubSeq(h, 1, 4)) % PORT_RANGE

\* get_default_ports: (BASE_PHOENIX_PORT + offset, BASE_VITE_PORT + offset)
get_default_ports(h) ==
    <<BASE_PHOENIX_PORT + get_port_offset(h), BASE_VITE_PORT + get_port_offset(h)>>

\* get_db_path: DB_DIR / f"phoenix-{worktree_hash}.db"
get_db_path(h) == <<"~/.phoenix-ide", "phoenix-", get_worktree_hash(h), ".db">>

\* get_lock_path: DB_DIR / f"phoenix-{worktree_hash}.lock"
get_lock_path(h) == <<"~/.phoenix-ide", "phoenix-", get_worktree_hash(h), ".lock">>

\* The WorktreeIdentity of the tree whose path has digest h.
Identity(h) ==
    [hash |-> get_worktree_hash(h), offset |-> get_port_offset(h),
     phoenix_port |-> get_default_ports(h)[1], vite_port |-> get_default_ports(h)[2],
     db_path |-> get_db_path(h), lock_path |-> get_lock_path(h)]

\* Digests of the second worktree: the largest four-digit prefixes.
OtherDigests ==
    {<<15, 15, 15, d, 15, 15, 15, 15>> : d \in {e \in HexDigits : e + MaxOther > 15}}

InitIdent ==
    /\ loc = [i \in Inv |-> InitLoc]
    /\ InitMachine
    /\ digest \in {[w \in Worktrees |-> IF w = 1 THEN <<a, b, c, d, 0, 0, 0, 0>> ELSE o] :
                     a \in HexDigits, b \in HexDigits, c \in HexDigits, d \in HexDigits,
                     o \in OtherDigests}
    /\ ident = [w \in Worktrees |-> NoIdentity]
    /\ InitNoProd

\* dev.py of worktree w derives its identity (cmd_up, cmd_status, start_phoenix).
Resolve(w) ==
    /\ ident' = [ident EXCEPT ![w] = Identity(digest[w])]
    /\ UNCHANGED <<loc, lockvars, procvars, digest, prodvars, gen, foreign, gw, tasks>>

NextIdent == \E w \in Worktrees : Resolve(w)

SpecIdent == InitIdent /\ [][NextIdent]_vars


\* ------------------------------------------------------------ ./dev.py prod
ProdCmds == {"deploy", "status", "stop", "override_set", "override_unset"}
DevVars == <<loc, lockvars, procvars, idvars, foreign, gw, tasks>>

\* The hosts dev.py may run on.
Hosts ==
    {[platform |-> "linux", systemd |-> s, limactl |-> FALSE, unpushed |-> FALSE, upstream |-> TRUE] :
        s \in BOOLEAN}
    \cup {[platform |-> "darwin", systemd |-> FALSE, limactl |-> l, unpushed |-> u,
            upstream |-> t] :
             l \in BOOLEAN, u \in BOOLEAN, t \in BOOLEAN}
    \cup {[platform |-> "other", systemd |-> FALSE, limactl |-> FALSE,
           unpushed |-> FALSE, upstream |-> TRUE]}

\* What an earlier deploy on host h may have left behind.
Deployed(h) ==
    IF h.platform = "darwin" \/ (h.platform = "linux" /\ h.systemd)
    THEN {[NoProd EXCEPT !.vm = v, !.install = b, !.socket_unit = b,
                         !.service_unit = b, !.socket = so, !.service = se,
                         !.frag = f, !.conflict = c] :
            v \in IF h.platform = "darwin" /\ h.limactl
                  THEN {"absent", "stopped", "running"} ELSE {"absent"},
            b \in {"none", "old"}, so \in BOOLEAN, se \in BOOLEAN,
            f \in IF h.platform = "linux" THEN {"none", "old"} ELSE {"none"},
            c \in IF h.platform = "linux" THEN BOOLEAN ELSE {FALSE}}
    ELSE {[NoProd EXCEPT !.daemon_old = a, !.pidfile = f] :
            a \in BOOLEAN, f \in {"none", "old"}}

InitProd ==
    /\ loc = [i \in Inv |-> InitLoc]
    /\ InitMachine
    /\ digest = [w \in Worktrees |-> <<>>]
    /\ ident = [w \in Worktrees |-> NoIdentity]
    /\ host \in Hosts
    /\ pr = InitPr
    /\ log = <<>>
    /\ prod \in {d \in Deployed(host) :
                   /\ (d.vm # "running" /\ host.platform = "darwin")
                      => (~d.socket /\ ~d.service)
                   /\ d.install = "none" => (~d.socket /\ ~d.service)}
    /\ prod0 = prod
    /\ gen = NoGen

PrExit(P, c) == [P EXCEPT !.pc = "exit", !.code = c]
PrRaise(P, e) == [P EXCEPT !.pc = "exit", !.code = 1, !.exc = e]
PrSay(P, m) == [P EXCEPT !.said = @ \cup {m}]

\* main(): `./dev.py prod deploy | status | stop | set | unset`.
ProdLaunch(c) ==
    /\ pr.pc = "idle"
    /\ pr' = [pr EXCEPT !.cmd = c, !.pc = IF c = "deploy" THEN "check" ELSE "detect"]
    /\ UNCHANGED <<DevVars, gen, host, log, prod, prod0>>

lima_vm_exists(v) == v # "absent"
lima_is_running(v) == v = "running"

\* detect_prod_env on host h with the VM in state v; started: `limactl start`
\* succeeds. The result is the value returned (ret, "unset" if none is), the state
\* of the VM afterwards and the exception that left the function.
detect_prod_env(h, v, started) ==
    IF h.platform = "darwin"
    THEN IF ~h.limactl
         THEN [ret |-> "unset", vm |-> v, exc |-> "FileNotFoundError"]
         ELSE IF lima_vm_exists(v)
              THEN IF lima_is_running(v)
                   THEN [ret |-> "lima", vm |-> v, exc |-> "none"]
                   ELSE IF started
                        THEN [ret |-> "lima", vm |-> "running", exc |-> "none"]
                        ELSE [ret |-> "unset", vm |-> v, exc |-> "CalledProcessError"]
              ELSE [ret |-> "None", vm |-> v, exc |-> "none"]
    ELSE IF h.platform = "linux"
         THEN [ret |-> IF h.systemd THEN "native" ELSE "daemon", vm |-> v,
               exc |-> "none"]
         ELSE [ret |-> "daemon", vm |-> v, exc |-> "none"]

\* A cmd_prod_deploy that detects the target, starting a stopped VM, before it
\* runs the checks.
PreDeployCheckAfterDetect ==
    /\ pr.pc = "check"
    /\ LET d == detect_prod_env(host, prod.vm, TRUE) IN
       /\ prod' = [prod EXCEPT !.vm = d.vm]
       /\ log' = (IF d.vm # prod.vm THEN Append(log, "limactl_start") ELSE log)
                 \o <<"check">>
    /\ \E ok \in BOOLEAN :
         pr' = IF ok THEN [pr EXCEPT !.pc = "detect"]
               ELSE PrExit([pr EXCEPT !.failed = "check"], 1)
    /\ UNCHANGED <<DevVars, gen, host, prod0>>

\* cmd_prod_deploy: cmd_check() runs clippy, the format check, the tests, the UI
\* lint and the task validation; a failing one ends the invocation.
PreDeployCheck ==
    /\ pr.pc = "check"
    /\ log' = Append(log, "check")
    /\ \E ok \in BOOLEAN :
         pr' = IF ok THEN [pr EXCEPT !.pc = "detect"]
               ELSE PrExit([pr EXCEPT !.failed = "check"], 1)
    /\ UNCHANGED <<DevVars, gen, host, prod, prod0>>

\* A dispatch that goes on without a target: None is handled like daemon.
DispatchWithoutTarget(P, env) ==
    LET Q == [P EXCEPT !.env = env] IN
    CASE P.cmd = "deploy" ->
           IF env = "lima" THEN [Q EXCEPT !.pc = "unpushed"]
           ELSE [Q EXCEPT !.pc = "steps", !.k = 1]
      [] P.cmd \in {"status", "stop"} -> [Q EXCEPT !.pc = P.cmd]
      [] OTHER ->
           IF env = "native" THEN [Q EXCEPT !.pc = "override", !.k = 1]
           ELSE PrExit(PrSay(Q, "not_supported"), 1)

\* The if/elif chain of cmd_prod_deploy, cmd_prod_status, cmd_prod_stop,
\* cmd_prod_override_set and cmd_prod_override_unset on the detected target.
Dispatch(P, env) ==
    LET Q == [P EXCEPT !.env = env] IN
    CASE P.cmd = "deploy" ->
           IF env = "None" THEN PrExit(PrSay(Q, "lima_not_found"), 1)
           ELSE IF env = "lima" THEN [Q EXCEPT !.pc = "unpushed"]
           ELSE [Q EXCEPT !.pc = "steps", !.k = 1]
      [] P.cmd \in {"status", "stop"} ->
           IF env = "None" THEN PrExit(PrSay(Q, "lima_not_found"), 1)
           ELSE [Q EXCEPT !.pc = P.cmd]
      [] OTHER ->
           IF env = "native" THEN [Q EXCEPT !.pc = "override", !.k = 1]
           ELSE PrExit(PrSay(Q, "not_supported"), 1)

\* env = detect_prod_env() and the branch on it.
Detect ==
    /\ pr.pc = "detect"
    /\ \E started \in BOOLEAN :
         LET d == detect_prod_env(host, prod.vm, started) IN
         /\ prod' = [prod EXCEPT !.vm = d.vm]
         /\ log' = IF host.platform = "darwin" /\ host.limactl /\ prod.vm = "stopped"
                   THEN Append(log, "limactl_start") ELSE log
         /\ pr' = IF d.exc # "none" THEN PrRaise([pr EXCEPT !.failed = "detect"], d.exc)
                  ELSE Dispatch(pr, d.ret)
    /\ UNCHANGED <<DevVars, gen, host, prod0>>

\* `git log @{u}.. --oneline`: the commits that are not in the upstream branch;
\* without an upstream branch git fails and prints nothing on stdout.
GitLogUnpushed(h) == h.upstream /\ h.unpushed

\* cmd_prod_deploy, lima: the output of git log @{u}.. is not empty -> sys.exit(1).
Unpushed ==
    /\ pr.pc = "unpushed"
    /\ pr' = IF GitLogUnpushed(host) THEN PrExit(PrSay([pr EXCEPT !.failed = "unpushed"],
                                                "unpushed"), 1)
             ELSE [pr EXCEPT !.pc = "steps", !.k = 1]
    /\ UNCHANGED <<DevVars, gen, host, log, prod, prod0>>

\* The commands of a deploy up to the is-active check, in the order of the code:
\* prod_build, then the placement of the binary and of the unit files.
BuildSteps == {"npm_ci", "npm_build", "npm_install_build", "cargo_build", "strip"}
\* A native deploy that writes the unit files before it places the binary.
NativeStepsUnitsFirst ==
    <<"resolve_ref", "git_worktree", "npm_ci", "npm_build", "cargo_build", "strip",
      "tee_socket", "tee_service", "mkdir", "rm", "cp", "chmod", "daemon_reload",
      "enable_socket", "enable_service">>

\* native_prod_deploy.
NativeSteps ==
    <<"resolve_ref", "git_worktree", "npm_ci", "npm_build", "cargo_build", "strip",
      "mkdir", "rm", "cp", "chmod", "tee_socket", "tee_service", "daemon_reload",
      "enable_socket", "enable_service">>
LimaSteps ==
    <<"chown", "sync", "npm_install_build", "cargo_build", "strip", "cp", "chmod",
      "configure_llm", "tee_socket", "tee_service", "daemon_reload", "enable_socket",
      "enable_service">>
DaemonSteps == <<"git_worktree", "npm_ci", "npm_build", "cargo_build">>
Steps(env) ==
    IF env = "native" THEN NativeSteps
    ELSE IF env = "lima" THEN LimaSteps ELSE DaemonSteps

\* The binary at the install location after step s: rm -f removes it; cp replaces
\* it, and a cp that fails leaves what was there or a part of the new file.
Placed(cur, s, ok) ==
    IF s = "rm" THEN IF ok THEN {"none"} ELSE {cur}
    ELSE IF s = "cp" THEN IF ok THEN {"new"} ELSE {cur, "partial"}
    ELSE {cur}

\* The production state after step s.
StepEffect(d, s, ok, b) ==
    [d EXCEPT !.install = b,
              !.socket_unit = IF s = "tee_socket" /\ ok THEN "new" ELSE @,
              !.service_unit = IF s = "tee_service" /\ ok THEN "new" ELSE @]

\* A failed step ends the deploy: sys.exit(1) where the code tests the return
\* code, CalledProcessError where it passes check=True.
StepFailure(P, s) ==
    IF s = "resolve_ref" \/ (P.env = "native" /\ s \in {"tee_socket", "tee_service"})
    THEN PrExit([P EXCEPT !.failed = s], 1)
    ELSE PrRaise([P EXCEPT !.failed = s], "CalledProcessError")

\* A deploy that runs its build commands without check=True: a failed build step
\* is noted and the next command runs.
StepResultUnchecked(P, s, ok) ==
    IF ~ok /\ s \notin BuildSteps THEN StepFailure(P, s)
    ELSE LET Q == [P EXCEPT !.failed = IF ok THEN @ ELSE s] IN
         IF P.k < Len(Steps(P.env)) THEN [Q EXCEPT !.k = @ + 1]
         ELSE [Q EXCEPT !.k = 1, !.pc = IF P.env = "daemon" THEN "daemon_creds"
                                        ELSE "is_active"]

\* The invocation after step s returned.
StepResult(P, s, ok) ==
    IF ~ok THEN StepFailure(P, s)
    ELSE IF P.k < Len(Steps(P.env)) THEN [P EXCEPT !.k = @ + 1]
    ELSE [P EXCEPT !.k = 1, !.pc = IF P.env = "daemon" THEN "daemon_creds"
                                   ELSE "is_active"]

\* native_prod_deploy, lima_prod_deploy, prod_daemon_deploy: the next command.
DeployStep ==
    /\ pr.pc = "steps"
    /\ LET s == Steps(pr.env)[pr.k] IN
       \E ok \in BOOLEAN : \E b \in Placed(prod.install, s, ok) :
           /\ log' = Append(log, s)
           /\ prod' = StepEffect(prod, s, ok, b)
           /\ pr' = StepResult(pr, s, ok)
    /\ UNCHANGED <<DevVars, gen, host, prod0>>

\* A deploy that takes the start path although the service is active.
BranchAlwaysStart(active) == "start"

\* if service_active: the reload path, else: the start path.
Branch(active) == IF active THEN "reload" ELSE "start"

\* systemctl is-active phoenix-ide, and the branch on its answer.
IsActive ==
    /\ pr.pc = "is_active"
    /\ pr' = [pr EXCEPT !.active = IF prod.service THEN "yes" ELSE "no",
                        !.pc = Branch(prod.service), !.k = 1]
    /\ UNCHANGED <<DevVars, gen, host, log, prod, prod0>>

\* sudo systemctl reload phoenix-ide (check=True): the service exits on SIGHUP and
\* systemd starts it again on the same socket; the new binary may fail to come up.
Reload ==
    /\ pr.pc = "reload"
    /\ log' = Append(log, "reload")
    /\ \E ok \in BOOLEAN : \E up \in BOOLEAN :
         /\ prod' = [prod EXCEPT !.service = IF ok THEN up ELSE @]
         /\ pr' = IF ok THEN [pr EXCEPT !.pc = "verify"]
                  ELSE PrRaise([pr EXCEPT !.failed = "reload"], "CalledProcessError")
    /\ UNCHANGED <<DevVars, gen, host, prod0>>

\* A start path that starts the service unit before the socket unit.
StartPathServiceFirst(env) ==
    IF env = "native" THEN <<"stop_service", "start_service", "start_socket">>
    ELSE <<"start_service", "start_socket">>

\* The start path: native stops a service left over first; then the socket unit
\* is started, then the service unit.
StartPath(env) ==
    IF env = "native" THEN <<"stop_service", "start_socket", "start_service">>
    ELSE <<"start_socket", "start_service">>

\* The next systemctl command of the start path; stop is run without check=True.
StartStep ==
    /\ pr.pc = "start"
    /\ LET s == StartPath(pr.env)[pr.k] IN
       \E ok \in BOOLEAN : \E up \in BOOLEAN :
           /\ log' = Append(log, s)
           /\ prod' = [prod EXCEPT
                         !.service = IF s = "stop_service" THEN IF ok THEN FALSE ELSE @
                                     ELSE IF s = "start_service" /\ ok THEN up ELSE @,
                         !.socket = IF s = "start_socket" /\ ok THEN TRUE ELSE @]
           /\ pr' = IF ~ok /\ s # "stop_service"
                    THEN PrRaise([pr EXCEPT !.failed = s], "CalledProcessError")
                    ELSE IF pr.k < Len(StartPath(pr.env)) THEN [pr EXCEPT !.k = @ + 1]
                    ELSE [pr EXCEPT !.pc = "verify"]
    /\ UNCHANGED <<DevVars, gen, host, prod0>>

\* After the sleep: systemctl is-active again. Active: the deploy is reported.
\* Not active: native on the reload path prints a warning and returns; the other
\* paths print the journal and sys.exit(1).
ProdVerify ==
    /\ pr.pc = "verify"
    /\ IF prod.service
       THEN /\ pr' = PrExit(PrSay(pr, "deployed"), 0)
            /\ UNCHANGED log
       ELSE IF pr.env = "native" /\ pr.active = "yes"
            THEN /\ pr' = PrExit(PrSay(pr, "restarting"), 0)
                 /\ UNCHANGED log
            ELSE /\ pr' = PrExit(PrSay([pr EXCEPT !.failed = "verify"], "failed"), 1)
                 /\ log' = Append(log, "journalctl")
    /\ UNCHANGED <<DevVars, gen, host, prod, prod0>>

\* prod_daemon_deploy: no gateway is reachable and ANTHROPIC_API_KEY is not set
\* -> sys.exit(1).
DaemonCreds ==
    /\ pr.pc = "daemon_creds"
    /\ \E creds \in BOOLEAN :
         pr' = IF creds THEN [pr EXCEPT !.pc = "daemon_stop_old"]
               ELSE PrExit([pr EXCEPT !.failed = "creds"], 1)
    /\ UNCHANGED <<DevVars, gen, host, log, prod, prod0>>

\* prod_daemon_deploy: if the PID file exists, SIGTERM to the PID in it, one
\* second of sleep, and the PID file is unlinked; the old daemon may live on.
DaemonStopOld ==
    /\ pr.pc = "daemon_stop_old"
    /\ IF prod.pidfile = "none"
       THEN UNCHANGED <<log, prod>>
       ELSE /\ log' = Append(log, "kill_old")
            /\ \E dies \in BOOLEAN :
                 prod' = [prod EXCEPT !.daemon_old = @ /\ ~dies, !.pidfile = "none"]
    /\ pr' = [pr EXCEPT !.pc = "daemon_spawn"]
    /\ UNCHANGED <<DevVars, gen, host, prod0>>

\* prod_daemon_deploy: Popen of the new binary, its PID is written to the PID file.
DaemonSpawn ==
    /\ pr.pc = "daemon_spawn"
    /\ log' = Append(log, "spawn")
    /\ \E st \in {"alive", "dead"} :
         prod' = [prod EXCEPT !.daemon_new = st, !.pidfile = "new"]
    /\ pr' = [pr EXCEPT !.pc = "daemon_verify"]
    /\ UNCHANGED <<DevVars, gen, host, prod0>>

\* prod_daemon_deploy: proc.poll() is not None -> sys.exit(1); else the health
\* probe, whose failure is a warning.
DaemonVerify ==
    /\ pr.pc = "daemon_verify"
    /\ \E healthy \in BOOLEAN :
         pr' = IF prod.daemon_new = "dead"
               THEN PrExit(PrSay([pr EXCEPT !.failed = "verify"], "failed"), 1)
               ELSE PrExit(PrSay(IF healthy THEN pr ELSE PrSay(pr, "health_warning"),
                                 "deployed"), 0)
    /\ UNCHANGED <<DevVars, gen, host, log, prod, prod0>>

\* native_prod_status, lima_prod_status, prod_daemon_status: reads only.
ProdStatus ==
    /\ pr.pc = "status"
    /\ pr' = PrExit(PrSay(pr, "status"), 0)
    /\ UNCHANGED <<DevVars, gen, host, log, prod, prod0>>

\* native_prod_stop, lima_prod_stop: systemctl stop, its result ignored.
\* prod_daemon_stop: SIGTERM, up to 10 polls, SIGKILL, the PID file is unlinked.
ProdStop ==
    /\ pr.pc = "stop"
    /\ IF pr.env = "daemon"
       THEN IF prod.pidfile = "none"
            THEN UNCHANGED <<log, prod>>
            ELSE /\ log' = Append(log, "kill_old")
                 /\ prod' = [prod EXCEPT !.daemon_old = FALSE, !.pidfile = "none"]
       ELSE /\ log' = Append(log, "stop_service")
            /\ \E ok \in BOOLEAN : prod' = [prod EXCEPT !.service = @ /\ ~ok]
    /\ pr' = PrExit(pr, 0)
    /\ UNCHANGED <<DevVars, gen, host, prod0>>

\* native_prod_override_set: mkdir, rm of each fragment of another name that sets
\* the same variable, tee of the fragment, daemon-reload, restart.
\* native_prod_override_unset: rm of the fragment, daemon-reload, restart.
OverrideSteps(cmd) ==
    IF cmd = "override_set"
    THEN <<"mkdir", "rm_conflicting", "tee_override", "daemon_reload",
           "restart_service">>
    ELSE <<"rm_override", "daemon_reload", "restart_service">>

\* The fragments after step s.
OverrideEffect(d, s, ok, up) ==
    [d EXCEPT !.frag = IF s = "tee_override" /\ ok THEN "new"
                       ELSE IF s = "rm_override" /\ ok THEN "none" ELSE @,
              !.conflict = IF s = "rm_conflicting" /\ ok THEN FALSE ELSE @,
              !.service = IF s = "restart_service" /\ ok THEN up ELSE @]

\* The next command of an override command. unset returns at once when the
\* fragment does not exist; a failed rm of a conflicting fragment is swallowed
\* (except Exception: pass), a failed tee is sys.exit(1), the other commands
\* are run with check=True.
OverrideStep ==
    /\ pr.pc = "override"
    /\ LET s == OverrideSteps(pr.cmd)[pr.k] IN
       IF s = "rm_override" /\ prod.frag = "none"
       THEN /\ pr' = PrExit(PrSay(pr, "no_override"), 0)
            /\ UNCHANGED <<log, prod>>
       ELSE IF s = "rm_conflicting" /\ ~prod.conflict
       THEN /\ pr' = [pr EXCEPT !.k = @ + 1]
            /\ UNCHANGED <<log, prod>>
       ELSE \E ok \in BOOLEAN : \E up \in BOOLEAN :
                /\ log' = Append(log, s)
                /\ prod' = OverrideEffect(prod, s, ok, up)
                /\ pr' = IF ~ok /\ s # "rm_conflicting"
                         THEN IF s = "tee_override" THEN PrExit([pr EXCEPT !.failed = s], 1)
                              ELSE PrRaise([pr EXCEPT !.failed = s], "CalledProcessError")
                         ELSE IF pr.k < Len(OverrideSteps(pr.cmd))
                              THEN [pr EXCEPT !.k = @ + 1]
                              ELSE PrExit(PrSay(pr, "override_applied"), 0)
    /\ UNCHANGED <<DevVars, gen, host, prod0>>

\* The invocation's process ends.
ProdTerminate ==
    /\ pr.pc = "exit"
    /\ pr' = [pr EXCEPT !.pc = "done"]
    /\ UNCHANGED <<DevVars, gen, host, log, prod, prod0>>

\* SpecProd: one `./dev.py prod` invocation on any host, after any earlier deploy.
NextProd ==
    \/ \E c \in ProdCmds : ProdLaunch(c)
    \/ PreDeployCheck \/ Detect \/ Unpushed \/ DeployStep
    \/ IsActive \/ Reload \/ StartStep \/ ProdVerify
    \/ DaemonCreds \/ DaemonStopOld \/ DaemonSpawn \/ DaemonVerify
    \/ ProdStatus \/ ProdStop \/ OverrideStep \/ ProdTerminate

SpecProd == InitProd /\ [][NextProd]_vars

\* ------------------------------------------------- systemd unit generation
\* SystemdConfig: user, db_path, install_dir, port, and the optional env_file and
\* llm_gateway ("None" when unset).
LIMA_ENV_FILE == "/etc/phoenix-ide/env"
NATIVE_SYSTEMD_CONFIG ==
    [user |-> "exedev", db_path |-> "~/.phoenix-ide/prod.db",
     install_dir |-> "/opt/phoenix-ide", port |-> PROD_PORT,
     env_file |-> "None", llm_gateway |-> "None"]
LIMA_SYSTEMD_CONFIG ==
    [user |-> "phoenix-ide", db_path |-> "/mnt/phoenix-data/prod.db",
     install_dir |-> "/opt/phoenix-ide", port |-> PROD_PORT,
     env_file |-> LIMA_ENV_FILE, llm_gateway |-> "None"]

\* get_llm_gateway(): a gateway URL, or None when none is reachable.
Gateways == {"None", "http://gateway"}

\* The configurations the generators are applied to: the two of the code with
\* every gateway, and every other combination of the fields.
SystemdConfigs ==
    [user : {"exedev", "phoenix-ide"},
     db_path : {"~/.phoenix-ide/prod.db", "/mnt/phoenix-data/prod.db"},
     install_dir : {"/opt/phoenix-ide", "/usr/local/phoenix-ide"},
     port : {PROD_PORT, PROD_PORT + 1},
     env_file : {"None", LIMA_ENV_FILE},
     llm_gateway : Gateways]

\* The configuration a deploy passes: dataclasses.replace(NATIVE_SYSTEMD_CONFIG,
\* llm_gateway=get_llm_gateway()) for native, LIMA_SYSTEMD_CONFIG for lima.
DeployConfig(env, gateway) ==
    IF env = "native" THEN [NATIVE_SYSTEMD_CONFIG EXCEPT !.llm_gateway = gateway]
    ELSE LIMA_SYSTEMD_CONFIG

\* generate_systemd_socket: the lines of the socket unit.
generate_systemd_socket(config) ==
    << <<"[Unit]", "">>,
       <<"Description", "Phoenix IDE Socket">>,
       <<"Documentation", "https://github.com/phoenix-ide/phoenix-ide">>,
       <<"", "">>,
       <<"[Socket]", "">>,
       <<"#", "Production port - socket stays open during service restarts">>,
       <<"ListenStream", config.port>>,
       <<"#", "Disable Nagle's algorithm for lower latency (SSE, interactive)">>,
       <<"NoDelay", "true">>,
       <<"#", "Allow connections to queue during restart">>,
       <<"Backlog", "128">>,
       <<"", "">>,
       <<"[Install]", "">>,
       <<"WantedBy", "sockets.target">> >>

\* env_lines of generate_systemd_service: the data path and the version, with
\* EnvironmentFile inserted in front when env_file is set, else LLM_GATEWAY
\* appended when llm_gateway is set.
env_lines(config, version) ==
    LET base == << <<"Environment=PHOENIX_DB_PATH", config.db_path>>,
                   <<"Environment=PHOENIX_VERSION", version>> >>
    IN IF config.env_file # "None"
       THEN << <<"EnvironmentFile", config.env_file>> >> \o base
       ELSE IF config.llm_gateway # "None"
            THEN Append(base, <<"Environment=LLM_GATEWAY", config.llm_gateway>>)
            ELSE base

\* A generator whose restart policy depends on the credential form.
generate_systemd_service_forked(config, version) ==
    << <<"[Unit]", "">>,
       <<"Description", "Phoenix IDE">>,
       <<"Documentation", "https://github.com/phoenix-ide/phoenix-ide">>,
       <<"#", "Socket must be ready before service starts">>,
       <<"Requires", "phoenix-ide.socket">>,
       <<"After", "network.target phoenix-ide.socket">>,
       <<"", "">>,
       <<"[Service]", "">>,
       <<"Type", "simple">>,
       <<"User", config.user>> >>
    \o env_lines(config, version) \o
    << <<"ExecStart", <<config.install_dir, "/phoenix-ide">> >>,
       <<"#", "SIGHUP triggers graceful shutdown; systemd restarts with same socket">>,
       <<"ExecReload", "/bin/kill -HUP $MAINPID">>,
       <<"#", "Restart always (including after SIGHUP which exits 0)">>,
       <<"Restart", IF config.env_file # "None" THEN "on-failure" ELSE "always">>,
       <<"RestartSec", "1">>,
       <<"#", "Give connections time to drain during graceful shutdown">>,
       <<"TimeoutStopSec", "30">>,
       <<"", "">>,
       <<"[Install]", "">>,
       <<"WantedBy", "multi-user.target">> >>

\* generate_systemd_service: the lines of the service unit.
generate_systemd_service(config, version) ==
    << <<"[Unit]", "">>,
       <<"Description", "Phoenix IDE">>,
       <<"Documentation", "https://github.com/phoenix-ide/phoenix-ide">>,
       <<"#", "Socket must be ready before service starts">>,
       <<"Requires", "phoenix-ide.socket">>,
       <<"After", "network.target phoenix-ide.socket">>,
       <<"", "">>,
       <<"[Service]", "">>,
       <<"Type", "simple">>,
       <<"User", config.user>> >>
    \o env_lines(config, version) \o
    << <<"ExecStart", <<config.install_dir, "/phoenix-ide">> >>,
       <<"#", "SIGHUP triggers graceful shutdown; systemd restarts with same socket">>,
       <<"ExecReload", "/bin/kill -HUP $MAINPID">>,
       <<"#", "Restart always (including after SIGHUP which exits 0)">>,
       <<"Restart", "always">>,
       <<"RestartSec", "1">>,
       <<"#", "Give connections time to drain during graceful shutdown">>,
       <<"TimeoutStopSec", "30">>,
       <<"", "">>,
       <<"[Install]", "">>,
       <<"WantedBy", "multi-user.target">> >>

\* Two configurations and a version, nothing generated yet.
InitUnits ==
    /\ loc = [i \in Inv |-> InitLoc]
    /\ InitMachine
    /\ digest = [w \in Worktrees |-> <<>>]
    /\ ident = [w \in Worktrees |-> NoIdentity]
    /\ host = [platform |-> "linux", systemd |-> TRUE, limactl |-> FALSE,
               unpushed |-> FALSE, upstream |-> TRUE]
    /\ pr = InitPr
    /\ log = <<>>
    /\ prod = NoProd
    /\ prod0 = NoProd
    /\ gen \in [{1, 2} ->
                 [config : SystemdConfigs
                           \cup {DeployConfig(e, g) : e \in {"native", "lima"},
                                                      g \in Gateways},
                  version : {"dev-1a2b3c4"}, socket : {<<>>}, service : {<<>>}]]

\* socket_content = generate_systemd_socket(config)
GenerateSocket(s) ==
    /\ gen[s].socket = <<>>
    /\ gen' = [gen EXCEPT ![s].socket = generate_systemd_socket(gen[s].config)]
    /\ UNCHANGED <<DevVars, prodvars>>

\* unit_content = generate_systemd_service(config, version)
GenerateService(s) ==
    /\ gen[s].service = <<>>
    /\ gen' = [gen EXCEPT ![s].service =
                  generate_systemd_service(gen[s].config, gen[s].version)]
    /\ UNCHANGED <<DevVars, prodvars>>

\* SpecUnits: the two generators applied to two configurations, in any order.
NextUnits == \E s \in {1, 2} : GenerateSocket(s) \/ GenerateService(s)

SpecUnits == InitUnits /\ [][NextUnits]_vars

\* --------------------------------------------------------- get_llm_gateway
DEFAULT_GATEWAY == "http://169.254.169.254/gateway/llm"
LOCAL_AI_PROXY == "http://127.0.0.1:8462"
ConfiguredGateway == "http://configured.example/llm"
EnvGateway == "http://env.example/llm"

\* A candidate list that tries the default gateway before the configured one.
_discover_gateway_candidates_default_first(config) ==
    <<LOCAL_AI_PROXY, DEFAULT_GATEWAY>>
    \o (IF config \in {"absent", "invalid", "nokey"} THEN <<>> ELSE <<config>>)

\* _discover_gateway_candidates: the local proxy, the llm_gateway of the config
\* file if the file exists, parses and has one, the default gateway.
_discover_gateway_candidates(config) ==
    <<LOCAL_AI_PROXY>>
    \o (IF config \in {"absent", "invalid", "nokey"} THEN <<>> ELSE <<config>>)
    \o <<DEFAULT_GATEWAY>>

\* _gateway_is_reachable: any HTTP response, an error status included.
_gateway_is_reachable(url, up) == url \in up

\* One call on any environment value (unset, empty or a URL), any state of the
\* config file and any set of reachable gateways.
InitGateway ==
    /\ loc = [i \in Inv |-> InitLoc]
    /\ hfd = [i \in Inv |-> 0]
    /\ hlocked = [i \in Inv |-> FALSE]
    /\ leaked = [i \in Inv |-> {}]
    /\ lockpath = 0
    /\ pidfile = [t \in Targets |-> NoFile]
    /\ alive = {} /\ zombies = {} /\ spawned = {} /\ foreign = {}
    /\ digest = [w \in Worktrees |-> <<>>]
    /\ ident = [w \in Worktrees |-> NoIdentity]
    /\ InitNoProd
    /\ tasks = [dir |-> {}, runs |-> <<>>, validated |-> FALSE, errors |-> {}]
    /\ gw \in [env : {"None", "", EnvGateway},
                config : {"absent", "invalid", "nokey", ConfiguredGateway},
                up : SUBSET {LOCAL_AI_PROXY, ConfiguredGateway, DEFAULT_GATEWAY}, pc : {"idle"}, k : {1},
                probed : {<<>>}, ret : {"unset"}]

\* if val := os.environ.get("LLM_GATEWAY"): return val  (an empty value is
\* false and goes on to the probing).
GatewayEnv ==
    /\ gw.pc = "idle"
    /\ gw' = IF gw.env \notin {"None", ""}
             THEN [gw EXCEPT !.pc = "done", !.ret = gw.env]
             ELSE [gw EXCEPT !.pc = "probe", !.k = 1]
    /\ UNCHANGED <<loc, lockvars, procvars, idvars, prodvars, gen, foreign, tasks>>

\* for url in _discover_gateway_candidates(): if _gateway_is_reachable(url):
\* return url; after the loop: return None.
GatewayProbe ==
    /\ gw.pc = "probe"
    /\ LET c == _discover_gateway_candidates(gw.config) IN
       gw' = IF gw.k > Len(c) THEN [gw EXCEPT !.pc = "done", !.ret = "None"]
             ELSE IF _gateway_is_reachable(c[gw.k], gw.up)
                  THEN [gw EXCEPT !.pc = "done", !.ret = c[gw.k],
                                  !.probed = Append(@, c[gw.k])]
                  ELSE [gw EXCEPT !.k = @ + 1, !.probed = Append(@, c[gw.k])]
    /\ UNCHANGED <<loc, lockvars, procvars, idvars, prodvars, gen, foreign, tasks>>

NextGateway == GatewayEnv \/ GatewayProbe

SpecGateway == InitGateway /\ [][NextGateway]_vars

\* ---------------------------------------------------------------- task files
\* A task file name NNN-w1-...-wk.md is the record of its number and of the words
\* between the dashes; the front matter is the sequence of its `key: value`
\* lines. Every file of the model starts with a front matter and has a name
\* that starts with a three-digit number, so parse_task_file returns a dict for
\* it; _TEMPLATE.md, which both commands skip, is not in the directory.
VALID_STATUSES ==
    {"ready", "in-progress", "pending", "blocked", "done", "wont-do", "brainstorming"}
VALID_PRIORITIES == {"p0", "p1", "p2", "p3", "p4"}

\* re.match(r"^\d{4}-\d{2}-\d{2}$", v): the dates among the values of the model.
IsDate(v) == v \in {"2024-01-01", "2025-06-01"}

\* infer_created_date: the output of git log --format=%as, or strftime
\* ("%Y-%m-%d") of the mtime, or date.today().isoformat(): a date in each case.
infer_created_date == "2025-06-01"

RECURSIVE PartsLess(_, _)
\* p1-...-pk.md < q1-...-ql.md as Python compares str: the first word that
\* differs decides; where one name goes on with "-" and the other with ".md",
\* the one with "-" is the smaller. Words are the words of the file names and
\* the values of status and priority, in the order of their strings; none is a
\* prefix of another.
PartsLess(p, q) ==
    LET Words == <<"done", "foo", "p1", "p9", "ready", "weird">>
        WordRank(w) == CHOOSE k \in 1 .. Len(Words) : Words[k] = w
    IN IF p = <<>> THEN FALSE
       ELSE IF q = <<>> THEN TRUE
       ELSE IF Head(p) = Head(q) THEN PartsLess(Tail(p), Tail(q))
       ELSE WordRank(Head(p)) < WordRank(Head(q))

RECURSIVE sorted(_)
\* sorted(tasks_dir.glob("*.md"))
sorted(S) ==
    IF S = {} THEN <<>>
    ELSE LET NameLess(a, b) ==
                 \/ a.number < b.number
                 \/ a.number = b.number /\ PartsLess(a.parts, b.parts)
             m == CHOOSE x \in S : \A y \in S \ {x} : NameLess(x, y)
         IN <<m>> \o sorted(S \ {m})

\* fields[key] after the loop over the lines of the front matter: a later line
\* of the same key replaces an earlier one; "None" when no line has the key.
Field(lines, key) ==
    LET at == {k \in 1 .. Len(lines) : lines[k][1] = key} IN
    IF at = {} THEN "None"
    ELSE lines[CHOOSE k \in at : \A j \in at : j <= k][2]

\* parse_task_file: TASK_FILENAME_PATTERN NNN-pX-status-slug.md, else the old
\* format NNN-slug.md.
parse_task_file(f) ==
    LET p == f.name.parts IN
    IF Len(p) >= 3 /\ p[1] \in VALID_PRIORITIES /\ p[2] \in VALID_STATUSES
    THEN [number |-> f.name.number, file_priority |-> p[1], file_status |-> p[2],
          slug |-> SubSeq(p, 3, Len(p)), fields |-> f.lines]
    ELSE [number |-> f.name.number, file_priority |-> "None", file_status |-> "None",
          slug |-> p, fields |-> f.lines]

get_expected_filename(number, priority, status, slug) ==
    [number |-> number, parts |-> <<priority, status>> \o slug]

\* cmd_tasks_fix, the body of the loop for the file called name; st is the
\* directory and the counters so far.
FixFile(st, name) ==
    LET f == CHOOSE x \in st.dir : x.name = name
        task == parse_task_file(f)
        patch == ~IsDate(Field(task.fields, "created"))
        g == IF patch
             THEN [f EXCEPT !.lines = <<<<"created", infer_created_date>>>> \o @]
             ELSE f
        st1 == [st EXCEPT !.dir = (@ \ {f}) \cup {g},
                          !.patched = @ + (IF patch THEN 1 ELSE 0)]
        status == Field(task.fields, "status")
        priority == Field(task.fields, "priority")
        expected == get_expected_filename(task.number, priority, status, task.slug)
    IN IF status = "None" \/ priority = "None"
       THEN [st1 EXCEPT !.errors = @ \cup {<<name, "missing_status_or_priority">>}]
       ELSE IF name = expected THEN st1
       ELSE IF \E x \in st1.dir : x.name = expected
       THEN [st1 EXCEPT !.errors = @ \cup {<<name, "file_exists">>}]
       ELSE [st1 EXCEPT !.dir = (@ \ {g}) \cup {[g EXCEPT !.name = expected]},
                        !.renamed = @ + 1]

RECURSIVE FixLoop(_, _)
FixLoop(st, todo) ==
    IF todo = <<>> THEN st ELSE FixLoop(FixFile(st, Head(todo)), Tail(todo))

\* cmd_tasks_fix on the directory dir: the directory afterwards, the value
\* returned and the two counters.
cmd_tasks_fix(dir) ==
    LET st == FixLoop([dir |-> dir, patched |-> 0, renamed |-> 0, errors |-> {}],
                      sorted({f.name : f \in dir})) IN
    [dir |-> st.dir, ret |-> st.errors = {}, patched |-> st.patched,
     renamed |-> st.renamed]

\* cmd_tasks_validate: the errors it lists, for each file those of the body of
\* its loop; it returns True iff there are none.
cmd_tasks_validate(dir) ==
    LET ValidateFile(f) ==
            LET status == Field(f.lines, "status")
                priority == Field(f.lines, "priority")
                created == Field(f.lines, "created")
                task == parse_task_file(f)
            IN (IF status = "None" THEN {"missing_status"}
                ELSE IF status \notin VALID_STATUSES THEN {"invalid_status"} ELSE {})
               \cup (IF priority = "None" THEN {"missing_priority"}
                     ELSE IF priority \notin VALID_PRIORITIES THEN {"invalid_priority"}
                     ELSE {})
               \cup (IF created = "None" THEN {"missing_created"}
                     ELSE IF ~IsDate(created) THEN {"invalid_created"} ELSE {})
               \cup (IF /\ status # "None" /\ priority # "None"
                        /\ f.name # get_expected_filename(task.number, priority,
                                                          status, task.slug)
                     THEN {"filename_mismatch"} ELSE {})
    IN UNION {{<<f.name, e>> : e \in ValidateFile(f)} : f \in dir}

\* The task files of the model: old-format and new-format names, front matter
\* with or without created (a date or not), status and priority (valid or not).
TaskDirs ==
    LET TaskNames ==
            {[number |-> 1, parts |-> p] :
                p \in {<<"foo">>, <<"p1", "done", "foo">>, <<"p1", "ready", "foo">>}}
        FrontMatter(c, s, p) ==
            (IF c = "None" THEN <<>> ELSE <<<<"created", c>>>>)
            \o (IF s = "None" THEN <<>> ELSE <<<<"status", s>>>>)
            \o (IF p = "None" THEN <<>> ELSE <<<<"priority", p>>>>)
        FrontMatters ==
            {FrontMatter(c, s, p) : c \in {"None", "2024-01-01", "2024/01/01"},
                                    s \in {"None", "done", "weird"},
                                    p \in {"None", "p1", "p9"}}
    IN UNION {{{[name |-> n, lines |-> c[n]] : n \in N} : c \in [N -> FrontMatters]} :
                N \in {M \in SUBSET TaskNames : Cardinality(M) <= MaxFiles}}

InitTasks ==
    /\ loc = [i \in Inv |-> InitLoc]
    /\ hfd = [i \in Inv |-> 0]
    /\ hlocked = [i \in Inv |-> FALSE]
    /\ leaked = [i \in Inv |-> {}]
    /\ lockpath = 0
    /\ pidfile = [t \in Targets |-> NoFile]
    /\ alive = {} /\ zombies = {} /\ spawned = {} /\ foreign = {}
    /\ digest = [w \in Worktrees |-> <<>>]
    /\ ident = [w \in Worktrees |-> NoIdentity]
    /\ InitNoProd
    /\ gw = [env |-> "None", config |-> "absent", up |-> {}, pc |-> "idle", k |-> 1,
            probed |-> <<>>, ret |-> "unset"]
    /\ tasks \in {[dir |-> d, runs |-> <<>>, validated |-> FALSE, errors |-> {}] :
                   d \in TaskDirs}

\* `./dev.py tasks fix`
TasksFix ==
    /\ Len(tasks.runs) < MaxRuns
    /\ LET r == cmd_tasks_fix(tasks.dir) IN
       tasks' = [dir |-> r.dir,
                 runs |-> Append(tasks.runs, [ret |-> r.ret, patched |-> r.patched,
                                              renamed |-> r.renamed]),
                 validated |-> FALSE, errors |-> {}]
    /\ UNCHANGED <<loc, lockvars, procvars, idvars, prodvars, gen, foreign, gw>>

\* `./dev.py tasks validate`
TasksValidate ==
    /\ ~tasks.validated
    /\ tasks' = [tasks EXCEPT !.validated = TRUE,
                              !.errors = cmd_tasks_validate(tasks.dir)]
    /\ UNCHANGED <<loc, lockvars, procvars, idvars, prodvars, gen, foreign, gw>>

NextTasks == TasksFix \/ TasksValidate

\* SpecTasks: fix and validate run on a directory of parseable task files.
SpecTasks == InitTasks /\ [][NextTasks]_vars

\* ==================================================================== claims
\* Every invocation of the model works in one worktree, so every service that
\* start_phoenix spawns has the same database path and the same lock path.

\* C1: at no time are two running Phoenix services that start_phoenix spawned
\* configured with the same database path.
C1_SingleWriter == Cardinality(alive \cap PhoenixPids) <= 1

\* C2: of two concurrent starts (up or restart) on one database, at most one
\* acquires the lock and spawns a service; the two never both hold a successful
\* acquire() with both of their services running.
C2_OneStartWins ==
    \A i, j \in Inv :
        (i # j /\ loc[i].cmd \in {"up", "restart"} /\ loc[j].cmd \in {"up", "restart"})
        => ~(/\ loc[i].acq = "True" /\ ProcPid("Phoenix", i) \in alive
             /\ loc[j].acq = "True" /\ ProcPid("Phoenix", j) \in alive)

\* C3: while one process holds the lock of a lock path, no other process holds
\* it: an acquire() by another process returns False, also after release() or the
\* cleanup of cmd_down unlinked the lock file. Handles that leaked a descriptor are
\* left out.
C3_Exclusive ==
    (\A k \in Inv : leaked[k] = {})
    => \A i, j \in Inv : i # j => ~(hfd[i] # 0 /\ hlocked[i] /\ hfd[j] # 0 /\ hlocked[j])

\* C4: once the holder has released the lock, acquire() by another caller returns
\* True: an acquire() returns False only while the handle of another process
\* holds the lock.
C4_ReleaseThenAcquire ==
    [][\A i \in Inv :
         (loc[i].pc = "acquire_flock" /\ loc'[i].pc # "acquire_flock" /\ hfd'[i] = 0)
         => \E j \in Inv \ {i} : hfd[j] # 0 /\ hlocked[j]]_vars

\* C4 happens: a start failed and released the lock, and after that the other
\* invocation acquired it.
C4_Released ==
    \E i, j \in Inv :
        /\ i # j
        /\ loc[j].ra = "start_fail" /\ loc[j].pc \in {"exit", "done"}
        /\ "failed_to_start" \in loc[j].said
        /\ loc[i].acq = "True" /\ loc[i].pc = "popen" /\ hlocked[i]

\* C5: a handle owns at most one open descriptor: no sequence of acquire and
\* release calls leaves a descriptor open that the handle no longer tracks.
C5_NoLeak == \A i \in Inv : leaked[i] = {}

\* C6: the body of a with-scope runs only while the lock is held; when the scope
\* is left, by normal completion or by an exception of the body, the lock has been
\* released; a failed entry raises RuntimeError and the body never runs.
C6_Scoped ==
    \A i \in Inv :
        /\ loc[i].pc = "with_body" => (hfd[i] # 0 /\ hlocked[i])
        /\ (loc[i].body \in {"ran", "raised"} /\ loc[i].pc \in {"api", "exit", "done"})
           => (hfd[i] = 0 /\ ~hlocked[i])
        /\ loc[i].exc = "BodyError" => (loc[i].body = "raised" /\ hfd[i] = 0)
        /\ loc[i].exc = "RuntimeError" => (loc[i].body = "none" /\ loc[i].acq = "False")

\* C6 happens: the body of one scope raised and the scope was left, and the entry
\* of another scope failed.
C6_BothExits ==
    \E i, j \in Inv :
        /\ loc[i].exc = "BodyError" /\ loc[i].pc = "exit"
        /\ loc[j].exc = "RuntimeError"

\* C8: the primary port is one of 8000..8024, the secondary port one of
\* 8025..8049, and no worktree's primary port equals any worktree's secondary port.
C8_PortRanges ==
    \A w, v \in Worktrees :
        ident[w] # NoIdentity
        => /\ ident[w].phoenix_port \in 8000 .. 8024
           /\ ident[w].vite_port \in 8025 .. 8049
           /\ ident[v] # NoIdentity => ident[w].phoenix_port # ident[v].vite_port

\* C8 happens: a worktree with the largest offset and another worktree have both
\* derived their ports.
C8_TopOffset ==
    /\ ident[1].phoenix_port = 8024 /\ ident[1].vite_port = 8049
    /\ ident[2] # NoIdentity

C10_StopNeverRaises ==
    [][\A i \in Inv :
         (loc[i].ctx = "stop" /\ loc[i].exc = "none" /\ loc'[i].exc # "none")
         => \E j \in Inv : ProcPid(loc[i].tgt, j) \in alive]_vars

C12_StopCleansUp ==
    [][\A i \in Inv : \A t \in Targets :
         (loc[i].gp[<<"stop", t>>] = "live" /\ loc[i].sp_ret[t] = "none"
          /\ loc'[i].sp_ret[t] # "none")
         => /\ loc'[i].sp_ret[t] = "True"
            /\ pidfile'[t] = NoFile
            /\ hfd'[i] = 0 /\ ~hlocked'[i] /\ leaked'[i] = {} /\ ~loc'[i].db_lock]_vars

\* C12 happens: a signal call of stop_process raised and stop_process returned.
C12_SignalRaised ==
    \E i \in Inv : /\ "could_not_stop" \in loc[i].said
                    /\ loc[i].gp[<<"stop", "Phoenix">>] = "live"
                    /\ loc[i].sp_ret["Phoenix"] = "True"

\* C13: if the process that start_phoenix spawned has ended when the liveness
\* check after the settle delay is made, the start is reported as failed.
C13_DeadStartFails ==
    [][\A i \in Inv :
         (loc[i].pc = "verify" /\ loc'[i].pc # "verify" /\ loc[i].tgt = "Phoenix"
          /\ loc[i].pid \notin alive)
         => ("failed_to_start" \in loc'[i].said
             /\ "started_phoenix" \notin loc'[i].said)]_vars

\* C14: from no lock file and no PID file, up then status then down, with the
\* service still running when down looks for it: up started the service and
\* recorded its PID, status reported it running, stop_process returned True, and
\* at the end of down (no further command started) no PID file and no lock file
\* exists and no lock is held.
C14_UpStatusDown ==
    (/\ loc[1].cmd = "up" /\ loc[2].cmd = "status" /\ loc[3].cmd = "down"
     /\ \A i \in 1 .. 3 : loc[i].pc = "done"
     /\ Started = 1 .. 3
     /\ "ready" \in loc[1].said
     /\ "SIGTERM" \in loc[3].sent["Phoenix"])
    => /\ "started_phoenix" \in loc[1].said /\ loc[1].code = 0
       /\ "phoenix_running" \in loc[2].said /\ loc[2].code = 0
       /\ loc[3].sp_ret["Phoenix"] = "True" /\ loc[3].code = 0
       /\ "nothing_running" \notin loc[3].said
       /\ \A t \in Targets : pidfile[t] = NoFile
       /\ lockpath = 0
       /\ \A i \in Inv : hfd[i] = 0 /\ ~hlocked[i] /\ leaked[i] = {}
       /\ alive \cap PhoenixPids = {}

\* C14 happens: the three commands have run in this order and the service was
\* running until down stopped it.
C14_ScenarioRun ==
    /\ loc[1].cmd = "up" /\ loc[2].cmd = "status" /\ loc[3].cmd = "down"
    /\ \A i \in 1 .. 3 : loc[i].pc = "done"
    /\ Started = 1 .. 3
    /\ "ready" \in loc[1].said
    /\ "SIGTERM" \in loc[3].sent["Phoenix"]
    /\ "phoenix_running" \in loc[2].said


\* C15: once detect_prod_env is over, the target is the one of the decision table:
\* linux with systemd native, linux without daemon, darwin lima when the VM is
\* there and undetermined (None) when it is not, any other platform daemon.
C15_DecisionTable ==
    (pr.env # "unset" \/ pr.failed = "detect") =>
        pr.env = IF host.platform = "linux"
                 THEN IF host.systemd THEN "native" ELSE "daemon"
                 ELSE IF host.platform = "darwin"
                      THEN IF host.limactl /\ prod0.vm # "absent" THEN "lima" ELSE "None"
                      ELSE "daemon"


\* C16: with the target undetermined (detect_prod_env returned None) the command
\* is over with a non-zero exit code; nothing was built, installed or signalled
\* (the only command run is the pre-deploy check of deploy) and the VM, the
\* files and the services are as they were.
C16_UndeterminedChangesNothing ==
    pr.env = "None" =>
        /\ pr.pc \in {"exit", "done"}
        /\ pr.code # 0
        /\ prod = prod0
        /\ \A n \in 1..Len(log) : log[n] = "check"

\* C16 happens: a deploy found the target undetermined and ended.
C16_UndeterminedDeploy ==
    pr.env = "None" /\ pr.cmd = "deploy" /\ pr.pc = "done"


\* C17: a deploy that found the service active issues the reload and no stop or
\* start of either unit (there is no restart command in a deploy), and a socket
\* unit that was active when the deploy began is active in every state of it.
C17_ReloadKeepsSocket ==
    /\ pr.active = "yes" =>
          /\ pr.env \in {"native", "lima"}
          /\ pr.pc = "reload" \/ \E n \in 1..Len(log) : log[n] = "reload"
          /\ \A n \in 1..Len(log) :
                log[n] \notin {"stop_service", "start_socket", "start_service",
                               "restart_service"}
    /\ (pr.cmd = "deploy" /\ prod0.service /\ prod0.socket) => prod.socket

\* C17 happens: a deploy over an active service and an active socket unit went
\* through the reload and reported the deploy.
C17_Reloaded ==
    /\ pr.active = "yes" /\ prod0.socket /\ pr.pc = "done"
    /\ "deployed" \in pr.said


\* C18: a deploy that found the service inactive starts the service unit only
\* after it started the socket unit, and reports the deploy only when both were
\* started and the service was found active afterwards.
C18_SocketThenService ==
    pr.active = "no" =>
        /\ pr.env \in {"native", "lima"}
        /\ \A n \in 1..Len(log) :
              log[n] = "start_service" => \E m \in 1..(n - 1) : log[m] = "start_socket"
        /\ \A n \in 1..Len(log) : log[n] # "reload"
        /\ "deployed" \in pr.said =>
              /\ prod.service /\ prod.socket
              /\ \E n \in 1..Len(log) : log[n] = "start_service"

\* C18 happens: a deploy over an inactive service started both units and
\* reported the deploy.
C18_Started ==
    /\ pr.active = "no" /\ pr.pc = "done" /\ "deployed" \in pr.said
    /\ ~prod0.socket


\* C19: in every state of a deploy over an installed binary the install location
\* holds the complete old binary or the complete new one.
C19_OldOrNew ==
    (pr.cmd = "deploy" /\ prod0.install = "old") => prod.install \in {"old", "new"}


\* C20: a deploy whose build step (npm ci / npm install, npm run build, cargo
\* build, strip) failed is over with a non-zero exit code and that step was its
\* last command: nothing was placed, no unit file written, no systemctl command
\* issued, no service or daemon stopped.
C20_FailedBuildHalts ==
    pr.failed \in BuildSteps =>
        /\ pr.pc \in {"exit", "done"} /\ pr.code # 0
        /\ log[Len(log)] = pr.failed
        /\ \A n \in 1..Len(log) :
              log[n] \in BuildSteps \cup {"check", "limactl_start", "resolve_ref",
                                          "git_worktree", "chown", "sync"}
        /\ prod.install = prod0.install
        /\ prod.socket_unit = prod0.socket_unit /\ prod.service_unit = prod0.service_unit
        /\ prod.socket = prod0.socket /\ prod.service = prod0.service
        /\ prod.daemon_old = prod0.daemon_old /\ prod.pidfile = prod0.pidfile

\* C20 happens: the backend build of a deploy failed over a running service.
C20_CargoFailed ==
    pr.failed = "cargo_build" /\ pr.pc = "done" /\ prod0.service



\* C21: a native or lima deploy that reached its verification and found the
\* service not active printed the journal and ended with a non-zero exit code.
C21_NotActiveFails ==
    (/\ pr.cmd = "deploy" /\ pr.env \in {"native", "lima"}
     /\ pr.pc \in {"exit", "done"} /\ pr.exc = "none"
     /\ pr.active # "unset" /\ ~prod.service)
    => /\ pr.code # 0
       /\ \E n \in 1..Len(log) : log[n] = "journalctl"



\* C22: a daemon deploy whose new process had exited by the end of the settle
\* delay, or whose health probe failed, ends with a non-zero exit code and does
\* not report a deployment.
C22_DaemonVerifyFails ==
    (/\ pr.env = "daemon" /\ pr.cmd = "deploy" /\ pr.pc \in {"exit", "done"}
     /\ prod.daemon_new = "dead" \/ "health_warning" \in pr.said)
    => pr.code # 0 /\ "deployed" \notin pr.said



\* C23: every generated service unit has exactly one credential line: the
\* EnvironmentFile= line or the Environment=LLM_GATEWAY= line.
C23_OneCredentialLine ==
    \A s \in DOMAIN gen :
        gen[s].service # <<>> =>
            Cardinality({n \in 1..Len(gen[s].service) :
                           gen[s].service[n][1] \in {"EnvironmentFile",
                                                     "Environment=LLM_GATEWAY"}}) = 1



\* C24: the units generated for two configurations are the same text once the
\* credential line is taken out and the values of the lines that carry user, data
\* path, install path and port are blanked: same lines, same directives, same
\* order.
C24_SameStructure ==
    LET Credential(line) == line[1] \in {"EnvironmentFile", "Environment=LLM_GATEWAY"}
        Kept(line) == ~Credential(line)
        Varying == {"User", "Environment=PHOENIX_DB_PATH", "ExecStart", "ListenStream"}
        Skeleton(text) ==
            LET rest == SelectSeq(text, Kept)
            IN [n \in 1..Len(rest) |->
                  IF rest[n][1] \in Varying THEN <<rest[n][1], "*">> ELSE rest[n]]
    IN /\ (gen[1].socket # <<>> /\ gen[2].socket # <<>>)
            => Skeleton(gen[1].socket) = Skeleton(gen[2].socket)
       /\ (gen[1].service # <<>> /\ gen[2].service # <<>>)
            => Skeleton(gen[1].service) = Skeleton(gen[2].service)

\* C24 happens: both units are generated for two configurations that differ in
\* every field, one with the environment file and one with the gateway.
C24_TwoConfigs ==
    /\ \A s \in {1, 2} : gen[s].socket # <<>> /\ gen[s].service # <<>>
    /\ gen[1].config.user # gen[2].config.user
    /\ gen[1].config.db_path # gen[2].config.db_path
    /\ gen[1].config.install_dir # gen[2].config.install_dir
    /\ gen[1].config.port # gen[2].config.port
    /\ gen[1].config.env_file # "None" /\ gen[2].config.env_file = "None"
    /\ gen[2].config.llm_gateway # "None"



\* C25: an override command that changed the fragments (wrote or removed the
\* fragment of the name, or removed another one) has, by the time it is over,
\* issued daemon-reload and then the restart of the service after the last change.
C25_MutationThenReloadRestart ==
    (/\ pr.cmd \in {"override_set", "override_unset"} /\ pr.pc \in {"exit", "done"}
     /\ prod.frag # prod0.frag \/ prod.conflict # prod0.conflict)
    => \E m \in 1..Len(log) : \E n \in 1..Len(log) :
          /\ m < n /\ log[m] = "daemon_reload" /\ log[n] = "restart_service"
          /\ \A j \in 1..Len(log) :
               log[j] \in {"tee_override", "rm_override", "rm_conflicting"} => j < m



\* C26: a lima deploy from a branch with unpushed commits runs no command in the
\* VM (no chown, sync, build, placement, unit file, systemctl) and ends with a
\* non-zero exit code.
C26_UnpushedRejected ==
    (pr.cmd = "deploy" /\ pr.env = "lima" /\ host.unpushed)
    => /\ \A n \in 1..Len(log) : log[n] \in {"check", "limactl_start"}
       /\ pr.pc \in {"unpushed", "exit", "done"}
       /\ pr.pc \in {"exit", "done"} => pr.code # 0



\* C27: when a daemon deploy over a recorded daemon comes to spawn the new binary,
\* and from then on, the previous daemon is dead.
C27_OldDaemonDeadAtSpawn ==
    (/\ pr.cmd = "deploy" /\ prod0.pidfile = "old"
     /\ pr.pc = "daemon_spawn" \/ prod.daemon_new # "none")
    => ~prod.daemon_old



\* C28: whenever a Phoenix service that start_phoenix spawned is running, some
\* process holds the exclusive lock on the lock file of the worktree.
C28_LockWhileRunning ==
    alive \cap PhoenixPids # {} =>
        \E i \in Inv : hlocked[i] /\ hfd[i] # 0 /\ hfd[i] = lockpath



\* C29: the step of cmd_down that unlinks the lock file is never taken while
\* another invocation that still runs holds the exclusive lock on that file.
C29_DownSparesHeldLock ==
    [][\A i \in Inv :
         (loc[i].pc = "down_unlink" /\ loc'[i].pc # "down_unlink"
          /\ lockpath # 0 /\ lockpath' = 0)
         => \A j \in Inv \ {i} :
              ~(hlocked[j] /\ hfd[j] = lockpath /\ loc[j].pc # "done")]_vars



\* C30: the step of get_pid that deletes the PID file is never taken for a PID
\* whose process is running.
C30_KeepsPidFileOfLiveProcess ==
    [][\A i \in Inv :
         (loc[i].pc = "get_pid_unlink" /\ loc'[i].pc # "get_pid_unlink"
          /\ pidfile[loc[i].tgt] # NoFile /\ pidfile'[loc[i].tgt] = NoFile)
         => loc[i].pid \notin alive]_vars



\* C31: in a native or lima deploy the commands run in the order build, placement
\* of the binary, socket unit, service unit, daemon-reload, start or reload; and a
\* command that failed is the last one the deploy ran.
C31_DeployOrder ==
    LET Rank(s) ==
            CASE s \in BuildSteps -> 1
              [] s \in {"mkdir", "rm", "cp", "chmod"} -> 2
              [] s = "tee_socket" -> 3
              [] s = "tee_service" -> 4
              [] s = "daemon_reload" -> 5
              [] s \in {"reload", "stop_service", "start_socket", "start_service"} -> 6
              [] OTHER -> 0
    IN (pr.cmd = "deploy" /\ pr.env \in {"native", "lima"}) =>
         /\ \A m \in 1..Len(log) : \A n \in 1..Len(log) :
              (m < n /\ Rank(log[m]) > 0 /\ Rank(log[n]) > 0)
              => Rank(log[m]) <= Rank(log[n])
         /\ (pr.failed \notin {"none", "check", "detect", "unpushed", "verify"})
              => (log[Len(log)] = pr.failed /\ pr.pc \in {"exit", "done"}
                  /\ pr.code # 0)
         /\ \A n \in 1..Len(log) :
              Rank(log[n]) = 6 =>
                \A r \in 1..5 : \E m \in 1..(n - 1) : Rank(log[m]) = r

\* C31 happens: a native deploy ran every step and reported the deploy.
C31_FullDeploy ==
    /\ pr.cmd = "deploy" /\ pr.env = "native" /\ pr.pc = "done"
    /\ "deployed" \in pr.said /\ prod.install = "new"
    /\ prod.socket_unit = "new" /\ prod.service_unit = "new"



C33_OtherFragmentsKept ==
    pr.cmd \in {"override_set", "override_unset"} => prod.conflict = prod0.conflict



\* C34: in daemon mode, when a deploy, a status or a stop is over, with any exit
\* code, the PID file exists only if the process whose PID it records is alive.
C34_PidFileOnlyOfLiveDaemon ==
    (/\ pr.env = "daemon" /\ pr.cmd \in {"deploy", "status", "stop"}
     /\ pr.pc \in {"exit", "done"})
    => /\ prod.pidfile = "old" => prod.daemon_old
       /\ prod.pidfile = "new" => prod.daemon_new = "alive"



\* C35: no worktree's derived port, primary or secondary, is the production port.
C35_NoDerivedPortIsProdPort ==
    \A w \in Worktrees :
        ident[w] # NoIdentity
        => ident[w].phoenix_port # PROD_PORT /\ ident[w].vite_port # PROD_PORT



\* C36: a restart whose build fails changes nothing: every step of such an
\* invocation, from the failed build to the end of its process, leaves the
\* running processes, the PID files and the lock state as they were, and the
\* invocation has sent no signal and has not called stop_process.
C36_FailedBuildTouchesNothing ==
    [][\A i \in Inv :
         (/\ loc'[i] # loc[i]
          /\ loc'[i].cmd = "restart"
          /\ loc'[i].exc = "CalledProcessError" /\ loc'[i].exc_at = "main")
         => /\ UNCHANGED <<lockvars, procvars>>
            /\ \A t \in Targets : loc'[i].sent[t] = {} /\ loc'[i].sp_ret[t] = "none"
            /\ loc'[i].code = 1]_vars

\* C36 happens: the build of a restart failed while Phoenix was running with its
\* PID recorded, and the restart is over.
C36_BuildFailedWhileRunning ==
    \E i \in Inv :
        /\ loc[i].cmd = "restart" /\ loc[i].pc = "done"
        /\ loc[i].exc = "CalledProcessError" /\ loc[i].exc_at = "main"
        /\ pidfile["Phoenix"] # NoFile
        /\ alive \cap PhoenixPids # {}



\* C37: the checks are the first thing a deploy does, and a deploy whose checks
\* fail ends with a non-zero exit code having detected no target and issued no
\* other command: no VM start, no build, no install, no service command; the
\* production state is as it was.
C37_ChecksBeforeDetection ==
    pr.cmd = "deploy"
    => /\ log # <<>> => log[1] = "check"
       /\ pr.env # "unset" => pr.failed # "check"
       /\ pr.failed = "check"
          => /\ pr.pc \in {"exit", "done"} /\ pr.code # 0
             /\ log = <<"check">>
             /\ prod = prod0

\* C37 happens: the checks of a deploy failed on a Mac whose VM was stopped, and
\* the deploy is over.
C37_CheckFailedVmStopped ==
    /\ pr.cmd = "deploy" /\ pr.failed = "check" /\ pr.pc = "done"
    /\ host.platform = "darwin" /\ host.limactl
    /\ prod0.vm = "stopped"



\* C38: a cmd_tasks_fix run right after one that returned True patches no file
\* and renames no file, and cmd_tasks_validate run after it reports no missing
\* or malformed created field and no file name that differs from the expected one.
C38_FixConverges ==
    /\ \A k \in 2 .. Len(tasks.runs) :
         tasks.runs[k - 1].ret
         => tasks.runs[k].patched = 0 /\ tasks.runs[k].renamed = 0
    /\ (/\ Len(tasks.runs) >= 2 /\ tasks.runs[Len(tasks.runs) - 1].ret
        /\ tasks.validated)
       => \A e \in tasks.errors :
            e[2] \notin {"missing_created", "invalid_created", "filename_mismatch"}



\* C39: the status command leaves a stopped VM stopped: it does not run
\* limactl start, and the VM is still stopped when the command is over.
C39_StatusLeavesVmStopped ==
    (pr.cmd = "status" /\ prod0.vm = "stopped")
    => /\ prod.vm = "stopped"
       /\ \A n \in 1 .. Len(log) : log[n] # "limactl_start"

====
